---- MODULE Spec2Model ----
(***************************************************************************)
(* A model of src/src/promise-utils.ts (PromiseUtils): the bounded-        *)
(* parallelism runner (inParallel / withConcurrency), the retry engine     *)
(* (withRetry on top of repeat), the keyed mutex (synchronized) and the    *)
(* timeout wrappers (timeoutResolve / timeoutReject).                      *)
(*                                                                         *)
(* Scheduling follows the host runtime: one thread, a FIFO queue of        *)
(* promise reaction jobs (microtasks), and external events (an operation's *)
(* promise settling, a timer firing, a new call being issued) that may     *)
(* arrive between any two jobs.  Caller-supplied operations are modelled   *)
(* as their signature states: each invocation returns a promise, which an  *)
(* external event later fulfils or rejects.  In the timeout wrappers the   *)
(* operation is started before the call and the timer callback is a task   *)
(* of the host: both arrive only when no reaction job is left.             *)
(***************************************************************************)
EXTENDS Integers, Sequences, FiniteSets, TLC

VARIABLES
  \* ---- inParallel / withConcurrency (one call) ----
  entry,        \* which function the caller invoked: "none", "inParallel", "withConcurrency"
  parallelism,  \* the parallelism argument as passed, a rational <<num, den>>
  jobs,         \* the job sequence (an Iterable), as a sequence of job data
  options,      \* options?.abortOnError as inParallel sees it: "undefined", "true", "false"
  iterator,     \* how many elements iterator.next() has handed out
  index,        \* the shared `index` counter
  jobResults,   \* the outcome array (may have holes)
  workers,      \* the async worker closures: pc, jobIndex, awaited invocation, awaited outcome
  invoked,      \* history of operation(job, jobIndex) invocations, in invocation order
  opSt,         \* state of the promise returned by each invocation
  pQueue,       \* microtask queue of this call's promise reaction jobs
  allRemaining, \* Promise.all: elements not yet fulfilled
  allSt,        \* Promise.all: state of the aggregate promise
  ipSt,         \* state of the promise returned by inParallel
  wcRegistered, \* withConcurrency: its promise is registered as a reaction of inParallel's
  wcSt,         \* state of the promise returned by withConcurrency
  firstRejected,\* history: the invocation whose promise rejected first in time (0: none)
  \* ---- withRetry (one call) ----
  rPc,          \* where the call is: "idle", "pending", "settled", "captured", "waiting",
                \* "elapsed", "finished", "done"
  backoff,      \* the backoff argument: [kind: "array" | "function", delays]
  shouldRetry,  \* the shouldRetry argument: "default" or "custom"
  operation,    \* the caller's operation: how the promise of each attempt settles
  attempt,      \* the `attempt` counter
  opPromise,    \* the promise chain operation(...).then(...).catch(...) of the current attempt
  param,        \* repeat's `param`: the previous outcome
  collection,   \* repeat's `collection`: the last outcome
  retrySt,      \* state of the promise returned by withRetry
  rCalls,       \* history: arguments of every invocation of the operation
  rWaits,       \* history: every backoff delay waited
  rDecisions,   \* history: every evaluation of shouldRetry and of backoff
  \* ---- synchronized (several calls) ----
  synchronizationLocks, \* the Lock Table: lock -> the resultPromise registered last
  sCalls,       \* the calls issued, in order: lock, pc, previousResultPromise, previousState,
                \* resultPromise; history: the call issued before it on the same lock
  sArgs,        \* history: the arguments each call's operation was invoked with
  sOp,          \* per call: state of the promise returned by its operation
  sDer,         \* per call: state of previousResultPromise.then(...) (the Pending case)
  sRet,         \* per call: state of the promise returned by synchronized
  sReact,       \* per call: reactions registered on its operation / derived promise
  sQueue,       \* microtask queue of promise reaction jobs
  \* ---- timeoutResolve / timeoutReject (one call) ----
  tPc,          \* "idle" before the call, "racing" after it
  tKind,        \* which function was called: "resolve" (timeoutResolve), "reject" (timeoutReject)
  tShape,       \* shape of result / rejectReason: "literal", "supplier", "deferred",
                \* "supplierDeferred" (a function returning a promise)
  tOp,          \* state of `promise`, the operation's promise
  tTimer,       \* the setTimeout of delayedResolve / delayedReject: "unset", "armed", "fired"
  tProbe,       \* what promiseState(promise) observed when the timer fired ("none" before)
  tSupplierCalls, \* history: how many times the result / rejectReason function was called
  tFb,          \* state of the promise given as (or returned by) result / rejectReason
  tFbWaited,    \* the timeout branch has subscribed to that promise
  tQ,           \* state of the promise returned by the function handed to delayedResolve/Reject
  tDelayed,     \* state of the promise returned by delayedResolve / delayedReject
  tRet,         \* state of the promise returned by Promise.race, i.e. by the call
  tOpFirst,     \* history: the operation's promise settled before the timer fired
  tQueue,       \* microtask queue of promise reaction jobs
  \* ---- promiseState (several calls on one promise) ----
  bP,           \* state of the promise p under inspection
  bProbes,      \* the calls issued, in order: history atCall (state of p at the call), state of
                \* the Promise.race promise, state of the returned promise
  bReact,       \* calls whose Promise.race is subscribed to the pending p
  bQueue,       \* microtask queue of promise reaction jobs
  \* ---- delayedResolve / delayedReject (one call) ----
  dPc,          \* "idle" before the call, "called" after it
  dKind,        \* which function was called: "resolve" (delayedResolve), "reject" (delayedReject)
  dMs,          \* the ms argument
  dClock,       \* milliseconds elapsed since the call
  dShape,       \* shape of result / reason: "literal", "supplier", "deferred", "supplierDeferred"
  dTimer,       \* the setTimeout: "unset", "armed", "fired"
  dSupplierCalls, \* history: how many times the result / reason function was called
  dNested,      \* state of the promise given as (or returned by) result / reason
  dWaited,      \* the returned promise's chain has subscribed to that promise
  dRet,         \* state of the returned promise
  dQueue,       \* microtask queue of promise reaction jobs
  \* ---- a backoff array formed from FIBONACCI_SEQUENCE / EXPONENTIAL_SEQUENCE ----
  qTable,       \* "none", or the table the array was sliced from
  qBackoff,     \* the backoff array: table.slice(0, n)
  qAttempt,     \* the attempt whose delay is looked up next
  qPrev,        \* the delay looked up before the last one (0: none)
  qCur          \* the delay looked up last (0: none)

parVars == <<entry, parallelism, jobs, options, iterator, index, jobResults, workers,
             invoked, opSt, pQueue, allRemaining, allSt, ipSt, wcRegistered, wcSt,
             firstRejected>>

retryVars == <<rPc, backoff, shouldRetry, operation, attempt, opPromise, param, collection,
               retrySt, rCalls, rWaits, rDecisions>>

syncVars == <<synchronizationLocks, sCalls, sArgs, sOp, sDer, sRet, sReact, sQueue>>

timeoutVars == <<tPc, tKind, tShape, tOp, tTimer, tProbe, tSupplierCalls, tFb, tFbWaited, tQ,
                 tDelayed, tRet, tOpFirst, tQueue>>

probeVars == <<bP, bProbes, bReact, bQueue>>

delayedVars == <<dPc, dKind, dMs, dClock, dShape, dTimer, dSupplierCalls, dNested, dWaited, dRet, dQueue>>

seqVars == <<qTable, qBackoff, qAttempt, qPrev, qCur>>

vars == <<parVars, retryVars, syncVars, timeoutVars, probeVars, delayedVars, seqVars>>

\* The calls of the three components are independent: a step of one leaves the others.
OnlyPar == UNCHANGED <<retryVars, syncVars, timeoutVars, probeVars, delayedVars, seqVars>>
OnlyRetry == UNCHANGED <<parVars, syncVars, timeoutVars, probeVars, delayedVars, seqVars>>
OnlySync == UNCHANGED <<parVars, retryVars, timeoutVars, probeVars, delayedVars, seqVars>>
OnlyTimeout == UNCHANGED <<parVars, retryVars, syncVars, probeVars, delayedVars, seqVars>>
OnlyProbe == UNCHANGED <<parVars, retryVars, syncVars, timeoutVars, delayedVars, seqVars>>
OnlyDelayed == UNCHANGED <<parVars, retryVars, syncVars, timeoutVars, probeVars, seqVars>>
OnlySeq == UNCHANGED <<parVars, retryVars, syncVars, timeoutVars, probeVars, delayedVars>>

-----------------------------------------------------------------------------
\* Bounds of the model.
MaxJobs == 3
MaxParallelism == 3
MaxBackoff == 2
MaxCalls == 3
MaxProbes == 3
MaxMs == 2
MaxSlice == 27

-----------------------------------------------------------------------------
\* Values and promise states.

\* A value handled by the runner: a job outcome, undefined, an array hole, or the
\* jobResults array itself (returned by reference).
Val(tag, job, idx) == [tag |-> tag, job |-> job, idx |-> idx]
Undefined == Val("undefined", "-", 0)
Hole == Val("hole", "-", 0)
JobResultsRef == Val("jobResults", "-", 0)

PromisePending == [st |-> "Pending", val |-> Undefined]
PromiseFulfilled(v) == [st |-> "Fulfilled", val |-> v]
PromiseRejected(r) == [st |-> "Rejected", val |-> r]

\* What the caller's operation(job, index) settles with when it fulfils / rejects.
OpValue(job, idx) == Val("value", job, idx)
OpReason(job, idx) == Val("error", job, idx)

\* Job lists of every length up to MaxJobs; a job datum occurs at several positions.
JobData(i) == IF i % 2 = 1 THEN "a" ELSE "b"
JobLists == {[i \in 1..n |-> JobData(i)] : n \in 0..MaxJobs}

\* parallelism values: negative, zero, fractional and whole numbers.
Parallelisms ==
  {<<n, 1>> : n \in (-1)..MaxParallelism} \cup {<<2 * n + 1, 2>> : n \in 0..MaxParallelism}

-----------------------------------------------------------------------------
\* inParallel, lines 215-221: coercion of parallelism and the number of workers.
LessThanOne(p) == p[1] < p[2]
Floor(p) == p[1] \div p[2]

Ceil(p) == -((-p[1]) \div p[2])

NumWorkers_One(p) == 1
NumWorkers_Ceil(p) == IF LessThanOne(p) THEN 1 ELSE Ceil(p)
NumWorkers(p) == IF LessThanOne(p) THEN 1 ELSE Floor(p)

\* jobResults[jobIndex] = v on a JavaScript array: a write past the end extends the
\* array, leaving holes.
ArrayPush(arr, i, v) == Append(arr, v)
ArraySet(arr, i, v) ==
  IF i < Len(arr)
    THEN [arr EXCEPT ![i + 1] = v]
    ELSE arr \o [k \in 1..(i - Len(arr)) |-> Hole] \o <<v>>
ArrayGet(arr, i) == IF i >= 0 /\ i < Len(arr) THEN arr[i + 1] ELSE Undefined

\* options?.abortOnError, line 231.
AbortOnError == options = "true"

\* withConcurrency, line 165: the options argument it hands to inParallel.
WithConcurrencyOptions == "undefined"

\* jobResultPromise.catch(error => error), line 231: the derived promise.
CatchHandler_Rethrow(p) == p
CatchHandler(p) == IF p.st = "Rejected" THEN PromiseFulfilled(p.val) ELSE p

\* Promise.all, line 234: the aggregate promise after one element fulfilled / rejected.
AllAfterFulfil_Any(st, remaining) == IF st.st = "Pending" THEN PromiseFulfilled(Undefined) ELSE st
AllAfterFulfil_OneShort(st, remaining) ==
  IF st.st = "Pending" /\ remaining = 0 THEN PromiseFulfilled(Undefined) ELSE st
AllAfterFulfil(st, remaining) ==
  IF st.st = "Pending" /\ remaining = 1 THEN PromiseFulfilled(Undefined) ELSE st
AllAfterReject_LastWins(st, reason) == PromiseRejected(reason)
AllAfterReject(st, reason) == IF st.st = "Pending" THEN PromiseRejected(reason) ELSE st

Task(kind, w) == [kind |-> kind, w |-> w]

\* line 229: const jobIndex = index++, the value before the increment.
JobIndex_PreIncrement(i) == i + 1
JobIndex(i) == i

\* iterator.next(), line 224, on the iterator of an array of which `it` elements were
\* pulled: past the end it reports done with an undefined value.
IteratorNext_DoneLate(it, js) ==
  [done |-> it > Len(js), value |-> IF it < Len(js) THEN js[it + 1] ELSE "undefined"]
IteratorNext(it, js) ==
  [done |-> it >= Len(js), value |-> IF it < Len(js) THEN js[it + 1] ELSE "undefined"]

\* The worker loop, lines 223-232, from the top of the while loop to the next
\* suspension: ctx holds the closure's shared variables.
WorkerLoop(ctx, w, js) ==
  IF IteratorNext(ctx.iterator, js).done
    THEN \* iteratorResult.done: break; the worker's promise fulfils
      [ctx EXCEPT !.workers[w].pc = "returned",
                  !.queue = Append(@, Task("allFulfil", w))]
    ELSE
      LET job == IteratorNext(ctx.iterator, js).value
          jobIndex == JobIndex(ctx.index)
          n == Len(ctx.invoked) + 1
      IN [ctx EXCEPT !.iterator = @ + 1,
                     !.index = @ + 1,
                     !.invoked = Append(@, [job |-> job, index |-> jobIndex, w |-> w]),
                     !.opSt = Append(@, PromisePending),
                     !.workers[w] = [pc |-> "await", jobIndex |-> jobIndex, op |-> n,
                                     aw |-> PromisePending]]

RECURSIVE StartWorkers(_, _, _, _)
StartWorkers(ctx, w, n, js) ==
  IF w > n THEN ctx ELSE StartWorkers(WorkerLoop(ctx, w, js), w + 1, n, js)

Ctx == [iterator |-> iterator, index |-> index, invoked |-> invoked, opSt |-> opSt,
        workers |-> workers, queue |-> pQueue]

SetCtx(ctx) ==
  /\ iterator' = ctx.iterator
  /\ index' = ctx.index
  /\ invoked' = ctx.invoked
  /\ opSt' = ctx.opSt
  /\ workers' = ctx.workers
  /\ pQueue' = ctx.queue

NoWorker == [pc |-> "new", jobIndex |-> 0, op |-> 0, aw |-> PromisePending]

ParIdle ==
  /\ entry = "none"
  /\ parallelism = <<1, 1>>
  /\ jobs = <<>>
  /\ options = "undefined"
  /\ iterator = 0
  /\ index = 0
  /\ jobResults = <<>>
  /\ workers = <<>>
  /\ invoked = <<>>
  /\ opSt = <<>>
  /\ pQueue = <<>>
  /\ allRemaining = 0
  /\ allSt = PromisePending
  /\ ipSt = PromisePending
  /\ wcRegistered = FALSE
  /\ wcSt = PromisePending
  /\ firstRejected = 0

\* inParallel(parallelism, jobs, operation, options), lines 215-234: the synchronous
\* part of the call, up to `await Promise.all(promises)`.
InParallelBody(p, js, opt, tail) ==
  LET n == NumWorkers(p)
      ctx0 == [iterator |-> 0, index |-> 0, invoked |-> <<>>, opSt |-> <<>>,
               workers |-> [w \in 1..n |-> NoWorker], queue |-> <<>>]
      ctx == StartWorkers(ctx0, 1, n, js)
  IN /\ parallelism' = p
     /\ jobs' = js
     /\ options' = opt
     /\ jobResults' = <<>>
     /\ allRemaining' = n
     \* Promise.all over no promises fulfils at once.
     /\ allSt' = IF n = 0 THEN PromiseFulfilled(Undefined) ELSE PromisePending
     /\ SetCtx([ctx EXCEPT !.queue = (IF n = 0 THEN Append(@, Task("ipResume", 0)) ELSE @)
                                      \o tail])
     /\ UNCHANGED <<ipSt, wcRegistered, wcSt, firstRejected>>

CallInParallel ==
  /\ OnlyPar
  /\ entry = "none"
  /\ \E p \in Parallelisms, js \in JobLists, opt \in {"undefined", "true", "false"} :
       InParallelBody(p, js, opt, <<>>)
  /\ entry' = "inParallel"

\* withConcurrency(concurrency, jobs, operation), lines 160-166: `return inParallel(...)`
\* in an async function resolves its promise with inParallel's promise.
CallWithConcurrency ==
  /\ OnlyPar
  /\ entry = "none"
  /\ \E p \in Parallelisms, js \in JobLists :
       InParallelBody(p, js, WithConcurrencyOptions, <<Task("wcThenJob", 0)>>)
  /\ entry' = "withConcurrency"

\* External event: the promise returned by invocation n settles.
SettleOp(n, st) ==
  LET w == invoked[n].w IN
  /\ OnlyPar
  /\ opSt[n].st = "Pending"
  /\ opSt' = [opSt EXCEPT ![n] = st]
  /\ firstRejected' = IF st.st = "Rejected" /\ firstRejected = 0 THEN n ELSE firstRejected
  \* line 231: the worker awaits the promise itself (abort mode) or its .catch(...)
  /\ pQueue' = Append(pQueue, Task(IF AbortOnError THEN "resume" ELSE "catch", w))
  /\ workers' = [workers EXCEPT ![w].aw = IF AbortOnError THEN st ELSE @]
  /\ UNCHANGED <<entry, parallelism, jobs, options, iterator, index, jobResults, invoked,
                 allRemaining, allSt, ipSt, wcRegistered, wcSt>>

OpFulfils ==
  \E n \in DOMAIN invoked : SettleOp(n, PromiseFulfilled(OpValue(invoked[n].job, invoked[n].index)))

OpRejects ==
  \E n \in DOMAIN invoked : SettleOp(n, PromiseRejected(OpReason(invoked[n].job, invoked[n].index)))

HeadIs(kind) == pQueue # <<>> /\ Head(pQueue).kind = kind

\* Reaction job of jobResultPromise.catch(error => error), line 231.
RunCatch ==
  /\ OnlyPar
  /\ HeadIs("catch")
  /\ LET w == Head(pQueue).w IN
       /\ workers' = [workers EXCEPT ![w].aw = CatchHandler(opSt[workers[w].op])]
       /\ pQueue' = Append(Tail(pQueue), Task("resume", w))
  /\ UNCHANGED <<entry, parallelism, jobs, options, iterator, index, jobResults, invoked,
                 opSt, allRemaining, allSt, ipSt, wcRegistered, wcSt, firstRejected>>

\* The worker resumes after its await, lines 231-232 and 223-230.
RunResume ==
  /\ OnlyPar
  /\ HeadIs("resume")
  /\ LET w == Head(pQueue).w
         aw == workers[w].aw
     IN IF aw.st = "Rejected"
          THEN \* the await throws: the async worker's promise rejects
            /\ workers' = [workers EXCEPT ![w].pc = "thrown"]
            /\ pQueue' = Append(Tail(pQueue), Task("allReject", w))
            /\ UNCHANGED <<jobResults, iterator, index, invoked, opSt>>
          ELSE
            /\ jobResults' = ArraySet(jobResults, workers[w].jobIndex, aw.val)
            /\ SetCtx(WorkerLoop([Ctx EXCEPT !.queue = Tail(pQueue)], w, jobs))
  /\ UNCHANGED <<entry, parallelism, jobs, options, allRemaining, allSt, ipSt,
                 wcRegistered, wcSt, firstRejected>>

\* Promise.all's reaction to one worker promise fulfilling, line 234.
RunAllFulfil ==
  /\ OnlyPar
  /\ HeadIs("allFulfil")
  /\ allSt' = AllAfterFulfil(allSt, allRemaining)
  /\ allRemaining' = allRemaining - 1
  /\ pQueue' = IF allSt'.st # allSt.st THEN Append(Tail(pQueue), Task("ipResume", 0))
                                       ELSE Tail(pQueue)
  /\ UNCHANGED <<entry, parallelism, jobs, options, iterator, index, jobResults, workers,
                 invoked, opSt, ipSt, wcRegistered, wcSt, firstRejected>>

\* Promise.all's reaction to one worker promise rejecting, line 234.
RunAllReject ==
  /\ OnlyPar
  /\ HeadIs("allReject")
  /\ LET w == Head(pQueue).w IN
       allSt' = AllAfterReject(allSt, workers[w].aw.val)
  /\ pQueue' = IF allSt.st = "Pending" THEN Append(Tail(pQueue), Task("ipResume", 0))
                                       ELSE Tail(pQueue)
  /\ UNCHANGED <<entry, parallelism, jobs, options, iterator, index, jobResults, workers,
                 invoked, opSt, allRemaining, ipSt, wcRegistered, wcSt, firstRejected>>

\* inParallel resumes after `await Promise.all(promises)`, lines 234-235.
RunIpResume ==
  /\ OnlyPar
  /\ HeadIs("ipResume")
  /\ ipSt' = IF allSt.st = "Rejected" THEN PromiseRejected(allSt.val)
                                      ELSE PromiseFulfilled(JobResultsRef)
  /\ pQueue' = IF wcRegistered THEN Append(Tail(pQueue), Task("wcAdopt", 0))
                               ELSE Tail(pQueue)
  /\ UNCHANGED <<entry, parallelism, jobs, options, iterator, index, jobResults, workers,
                 invoked, opSt, allRemaining, allSt, wcRegistered, wcSt, firstRejected>>

\* withConcurrency, line 165: the job that subscribes its promise to inParallel's.
RunWcThenJob ==
  /\ OnlyPar
  /\ HeadIs("wcThenJob")
  /\ IF ipSt.st = "Pending"
       THEN wcRegistered' = TRUE /\ pQueue' = Tail(pQueue)
       ELSE wcRegistered' = wcRegistered /\ pQueue' = Append(Tail(pQueue), Task("wcAdopt", 0))
  /\ UNCHANGED <<entry, parallelism, jobs, options, iterator, index, jobResults, workers,
                 invoked, opSt, allRemaining, allSt, ipSt, wcSt, firstRejected>>

\* withConcurrency's promise takes the outcome of inParallel's.
RunWcAdopt ==
  /\ OnlyPar
  /\ HeadIs("wcAdopt")
  /\ wcSt' = ipSt
  /\ pQueue' = Tail(pQueue)
  /\ UNCHANGED <<entry, parallelism, jobs, options, iterator, index, jobResults, workers,
                 invoked, opSt, allRemaining, allSt, ipSt, wcRegistered, firstRejected>>

-----------------------------------------------------------------------------
\* withRetry, lines 107-134, on top of repeat, lines 64-83.

RVal(tag, k) == [tag |-> tag, attempt |-> k]
RUndefined == RVal("undefined", 0)

\* How the promise returned by one invocation of the operation settles: fulfilled with
\* a result, rejected with an error, or rejected with undefined (Promise.reject()).
OpOutcomes == {"fulfil", "reject", "rejectUndefined"}
OpSettlement(kind, k) ==
  CASE kind = "fulfil" -> [st |-> "Fulfilled", val |-> RVal("result", k)]
    [] kind = "reject" -> [st |-> "Rejected", val |-> RVal("error", k)]
    [] OTHER -> [st |-> "Rejected", val |-> RUndefined]
RPending == [st |-> "Pending", val |-> RUndefined]

\* Backoff periods: negative, zero and positive.
Delays == {-1, 0, 7}
DelayLists == UNION {[1..n -> Delays] : n \in 0..MaxBackoff}
Backoffs == {[kind |-> k, delays |-> d] : k \in {"array", "function"}, d \in DelayLists}
\* An operation is a function of the attempt number; at most Len(delays) + 1 attempts
\* are ever made.
Operations(n) == [1..(n + 1) -> OpOutcomes]

\* An OperationOutcome object {result?, error?}: an absent property reads as undefined.
Outcome(result, error) == [result |-> result, error |-> error]
EmptyOutcome == Outcome(RUndefined, RUndefined)

\* line 115: .then(result => ({ result })).catch(error => ({ error }))
CaptureOutcome_Propagate(p) ==
  IF p.st = "Fulfilled" THEN [st |-> "Fulfilled", val |-> Outcome(p.val, RUndefined)] ELSE p
CaptureOutcome(p) ==
  IF p.st = "Fulfilled" THEN [st |-> "Fulfilled", val |-> Outcome(p.val, RUndefined)]
  ELSE IF p.st = "Rejected" THEN [st |-> "Fulfilled", val |-> Outcome(RUndefined, p.val)]
  ELSE p

\* line 110: the default shouldRetry, previousError !== undefined.
DefaultShouldRetry(previousError, previousResult, n) == previousError # RUndefined

\* line 120: backoff[attempt - 1] of an array, or backoff(attempt, result, error) of a
\* function that yields its delays in turn and then undefined.  <<>> is undefined.
BackoffMs_OffByOne(b, n) ==
  IF n + 1 \in DOMAIN b.delays THEN <<b.delays[n + 1]>> ELSE <<>>
BackoffMs(b, n) ==
  IF b.kind = "array"
    THEN (IF n - 1 >= 0 /\ n - 1 < Len(b.delays) THEN <<b.delays[(n - 1) + 1]>> ELSE <<>>)
    ELSE (IF n \in DOMAIN b.delays THEN <<b.delays[n]>> ELSE <<>>)

\* line 121: backoffMs == null || backoffMs < 0
NoFurtherCall_ZeroStops(backoffMs) == backoffMs = <<>> \/ backoffMs[1] <= 0
NoFurtherCall(backoffMs) == backoffMs = <<>> \/ backoffMs[1] < 0

\* line 117: what shouldRetry(outcome.error, outcome.result, attempt) can return: the
\* default predicate is computed, a caller's predicate may return either answer.
ShouldRetryAnswers(sr, outcome, n) ==
  IF sr = "default" THEN {DefaultShouldRetry(outcome.error, outcome.result, n)} ELSE BOOLEAN

\* lines 116-126: withRetry's nextParameter.  shouldRetry is evaluated first; backoff is
\* consulted (consulted, with the arguments args) only if it answered true; stop is
\* `return null`.
BackoffArgs(n, outcome) == [attempt |-> n, result |-> outcome.result, error |-> outcome.error]
NoBackoffArgs == [attempt |-> 0, result |-> RUndefined, error |-> RUndefined]
NextParameter_BackoffFirst(answer, b, n, outcome) ==
  [attempt |-> n, retry |-> answer, consulted |-> TRUE, args |-> BackoffArgs(n, outcome),
   backoffMs |-> BackoffMs(b, n), stop |-> ~answer \/ NoFurtherCall(BackoffMs(b, n))]
NextParameter(answer, b, n, outcome) ==
  IF ~answer
    THEN [attempt |-> n, retry |-> FALSE, consulted |-> FALSE, args |-> NoBackoffArgs,
          backoffMs |-> <<>>, stop |-> TRUE]
    ELSE [attempt |-> n, retry |-> TRUE, consulted |-> TRUE, args |-> BackoffArgs(n, outcome),
          backoffMs |-> BackoffMs(b, n), stop |-> NoFurtherCall(BackoffMs(b, n))]

\* lines 130-133: the final unwrap.
Unwrap(finalOutcome) ==
  IF finalOutcome.error # RUndefined
    THEN [st |-> "Rejected", val |-> finalOutcome.error]
    ELSE [st |-> "Fulfilled", val |-> finalOutcome.result]

RetryIdle ==
  /\ rPc = "idle"
  /\ backoff = [kind |-> "array", delays |-> <<>>]
  /\ shouldRetry = "default"
  /\ operation = <<>>
  /\ attempt = 0
  /\ opPromise = RPending
  /\ param = EmptyOutcome
  /\ collection = EmptyOutcome
  /\ retrySt = RPending
  /\ rCalls = <<>>
  /\ rWaits = <<>>
  /\ rDecisions = <<>>

\* line 115: operation(attempt, previousOutcome.result, previousOutcome.error)
OperationCallArgs_Swapped(n, previousOutcome) ==
  [attempt |-> n, previousResult |-> previousOutcome.error,
   previousError |-> previousOutcome.result]
OperationCallArgs(n, previousOutcome) ==
  [attempt |-> n, previousResult |-> previousOutcome.result,
   previousError |-> previousOutcome.error]

InvokeOperation(n, previousOutcome) ==
  /\ rCalls' = Append(rCalls, OperationCallArgs(n, previousOutcome))
  /\ opPromise' = RPending
  /\ rPc' = "pending"

\* withRetry(operation, backoff, shouldRetry), lines 113-115 and 71-74: up to the first
\* await of repeat.
CallWithRetry ==
  /\ OnlyRetry
  /\ rPc = "idle"
  /\ \E b \in Backoffs, sr \in {"default", "custom"} :
       /\ backoff' = b
       /\ shouldRetry' = sr
       /\ \E op \in Operations(Len(b.delays)) : operation' = op
  /\ attempt' = 1
  /\ param' = EmptyOutcome
  /\ collection' = EmptyOutcome
  /\ InvokeOperation(1, EmptyOutcome)
  /\ UNCHANGED <<retrySt, rWaits, rDecisions>>

\* External event: the promise returned by the operation settles.
OperationSettles ==
  /\ OnlyRetry
  /\ rPc = "pending"
  /\ opPromise' = OpSettlement(operation[Len(rCalls)], Len(rCalls))
  /\ rPc' = "settled"
  /\ UNCHANGED <<backoff, shouldRetry, operation, attempt, param, collection, retrySt,
                 rCalls, rWaits, rDecisions>>

\* The reaction jobs of .then(...).catch(...), line 115.
RunCapture ==
  /\ OnlyRetry
  /\ rPc = "settled"
  /\ opPromise' = CaptureOutcome(opPromise)
  /\ rPc' = "captured"
  /\ UNCHANGED <<backoff, shouldRetry, operation, attempt, param, collection, retrySt,
                 rCalls, rWaits, rDecisions>>

\* repeat resumes after `await operation(param)`, lines 74-80, with withRetry's
\* nextParameter, lines 116-126, and collect, line 127.
RunNextParameter ==
  /\ OnlyRetry
  /\ rPc = "captured"
  /\ IF opPromise.st = "Rejected"
       THEN \* the await throws out of repeat and out of withRetry
         /\ retrySt' = opPromise
         /\ rPc' = "done"
         /\ UNCHANGED <<attempt, collection, rWaits, rDecisions>>
       ELSE
         LET outcome == opPromise.val IN
         /\ collection' = outcome
         /\ \E answer \in ShouldRetryAnswers(shouldRetry, outcome, attempt) :
              LET d == NextParameter(answer, backoff, attempt, outcome) IN
              /\ rDecisions' = Append(rDecisions, d)
              /\ IF d.stop
                   THEN rPc' = "finished" /\ UNCHANGED <<attempt, rWaits>>
                   ELSE /\ attempt' = attempt + 1
                        \* delayedResolve(backoffMs, outcome): a timer is set
                        /\ rWaits' = Append(rWaits, d.backoffMs[1])
                        /\ rPc' = "waiting"
         /\ UNCHANGED retrySt
  /\ UNCHANGED <<backoff, shouldRetry, operation, opPromise, param, rCalls>>

\* External event: the timer of delayedResolve(backoffMs, outcome) fires, lines 247-249.
TimerFires ==
  /\ OnlyRetry
  /\ rPc = "waiting"
  /\ rPc' = "elapsed"
  /\ UNCHANGED <<backoff, shouldRetry, operation, attempt, opPromise, param, collection,
                 retrySt, rCalls, rWaits, rDecisions>>

\* repeat resumes after `await paramOrPromise`, line 80, and loops, line 74.
ParamAwaited_NotAwaited == rPc \in {"waiting", "elapsed"}
ParamAwaited == rPc = "elapsed"

RunNextAttempt ==
  /\ OnlyRetry
  /\ ParamAwaited
  /\ param' = collection
  /\ InvokeOperation(attempt, collection)
  /\ UNCHANGED <<backoff, shouldRetry, operation, attempt, collection, retrySt, rWaits,
                 rDecisions>>

\* repeat returns the collection and withRetry resumes, lines 130-133.
RunUnwrap ==
  /\ OnlyRetry
  /\ rPc = "finished"
  /\ retrySt' = Unwrap(collection)
  /\ rPc' = "done"
  /\ UNCHANGED <<backoff, shouldRetry, operation, attempt, opPromise, param, collection,
                 rCalls, rWaits, rDecisions>>

-----------------------------------------------------------------------------
\* synchronized, lines 334-373, with promiseState, lines 328-332.

Locks == {"k1", "k2"}

SVal(tag, c) == [tag |-> tag, c |-> c]
SUndefined == SVal("undefined", 0)
SState(st, val) == [st |-> st, val |-> val]
SPending == SState("Pending", SUndefined)
\* A promise that does not exist (yet).
SNone == SState("None", SUndefined)
Settled(p) == p.st \in {"Fulfilled", "Rejected"}

\* Promises a Lock Table entry can hold: the promise returned by call c's operation, or
\* the promise derived by previousResultPromise.then(...) in call c.
PromiseId(kind, c) == [kind |-> kind, c |-> c]
NoPromise == PromiseId("none", 0)
StateOf(id) == IF id.kind = "op" THEN sOp[id.c] ELSE sDer[id.c]

STask(kind, c, hops) == [kind |-> kind, c |-> c, hops |-> hops]
SHeadIs(kind) == sQueue # <<>> /\ Head(sQueue).kind = kind

\* promiseState(p), lines 329-331: the state Promise.race([p, t]) observes is that of p
\* at the call; its result reaches the awaiting caller three reaction jobs later (the
\* race's, the .then handler's, the await's).
PromiseStateHops == 3
PromiseState_NeverPending(p) == IF Settled(p) THEN p.st ELSE "Fulfilled"
PromiseState(p) == IF Settled(p) THEN p.st ELSE "Pending"

\* line 366: `await previousResultPromise.catch(error => error)` on a settled promise
\* takes two reaction jobs (the catch's, the await's).
AwaitCatchHops == 2

\* The reaction jobs of a promise that settles, in registration order.
ReactionJobs_Dropped(reactions) == <<>>
ReactionJobs(reactions) == [i \in DOMAIN reactions |-> STask(reactions[i].kind, reactions[i].c, 0)]

SyncIdle ==
  /\ synchronizationLocks = [k \in Locks |-> NoPromise]
  /\ sCalls = <<>>
  /\ sArgs = <<>>
  /\ sOp = <<>>
  /\ sDer = <<>>
  /\ sRet = <<>>
  /\ sReact = <<>>
  /\ sQueue = <<>>

NoArgs == [invoked |-> FALSE, previousState |-> "undefined",
           previousSettledState |-> "undefined", previousResult |-> SUndefined]
OperationArgs(previousState, previousSettledState, previousResult) ==
  [invoked |-> TRUE, previousState |-> previousState,
   previousSettledState |-> previousSettledState, previousResult |-> previousResult]

\* line 362: operation(undefined, undefined, undefined)
FirstCallArgs_Pending == OperationArgs("Pending", "undefined", SUndefined)
FirstCallArgs == OperationArgs("undefined", "undefined", SUndefined)

\* line 357: the handlers of previousResultPromise.then(...), for a promise settled as
\* prev.
ChainArgs_Fulfilled(prev) == OperationArgs("Pending", "Fulfilled", prev.val)
ChainArgs(prev) == OperationArgs("Pending", prev.st, prev.val)

\* line 366: operation(previousState, previousState, await
\* previousResultPromise.catch(error => error)), for a promise settled as prev.
SettledArgs_Undefined(previousState, prev) == OperationArgs(previousState, previousState, SUndefined)
SettledArgs(previousState, prev) == OperationArgs(previousState, previousState, prev.val)

\* The call issued last before a new one on the same lock (0: none), and whether its
\* operation is still to settle.
LastCallOn(lock) ==
  LET on == {c \in DOMAIN sCalls : sCalls[c].lock = lock}
  IN IF on = {} THEN 0 ELSE CHOOSE c \in on : \A d \in on : d <= c
Unsettled(c) == c # 0 /\ ~Settled(sOp[c])

\* line 350: synchronizationLocks.get(lock)
LocksGet_OneEntry(table, lock) == table["k1"]
LocksGet(table, lock) == table[lock]

\* synchronized(lock, operation), lines 349-354: up to the first suspension.  With no
\* entry for the lock nothing is awaited and the call runs on to lines 362, 371, 372.
CallSynchronized ==
  /\ OnlySync
  /\ Len(sCalls) < MaxCalls
  /\ \E lock \in Locks :
       LET c == Len(sCalls) + 1
           previousResultPromise == LocksGet(synchronizationLocks, lock)
       IN IF previousResultPromise = NoPromise
            THEN
              /\ sCalls' = Append(sCalls, [lock |-> lock, pc |-> "returned",
                                           previousResultPromise |-> NoPromise,
                                           previousState |-> "undefined",
                                           resultPromise |-> PromiseId("op", c),
                                           predecessor |-> LastCallOn(lock),
                                           predecessorUnsettled |-> Unsettled(LastCallOn(lock))])
              /\ sArgs' = Append(sArgs, FirstCallArgs)
              /\ sOp' = Append(sOp, SPending)
              /\ synchronizationLocks' = [synchronizationLocks EXCEPT ![lock] = PromiseId("op", c)]
              /\ sQueue' = Append(sQueue, STask("thenJobRet", c, 0))
            ELSE
              /\ sCalls' = Append(sCalls, [lock |-> lock, pc |-> "probing",
                                           previousResultPromise |-> previousResultPromise,
                                           previousState |->
                                             PromiseState(StateOf(previousResultPromise)),
                                           resultPromise |-> NoPromise,
                                           predecessor |-> LastCallOn(lock),
                                           predecessorUnsettled |-> Unsettled(LastCallOn(lock))])
              /\ sArgs' = Append(sArgs, NoArgs)
              /\ sOp' = Append(sOp, SNone)
              /\ sQueue' = Append(sQueue, STask("probe", c, PromiseStateHops))
              /\ UNCHANGED synchronizationLocks
  /\ sDer' = Append(sDer, SNone)
  /\ sRet' = Append(sRet, SPending)
  /\ sReact' = Append(sReact, [op |-> <<>>, der |-> <<>>])

\* A reaction job that only passes a settlement on to the next promise of a chain.
RunHop ==
  /\ OnlySync
  /\ sQueue # <<>>
  /\ Head(sQueue).hops > 1
  /\ sQueue' = Append(Tail(sQueue), [Head(sQueue) EXCEPT !.hops = @ - 1])
  /\ UNCHANGED <<synchronizationLocks, sCalls, sArgs, sOp, sDer, sRet, sReact>>

\* synchronized resumes after `await PromiseUtils.promiseState(...)`, lines 353-372.
RunProbe ==
  /\ OnlySync
  /\ SHeadIs("probe")
  /\ Head(sQueue).hops = 1
  /\ LET c == Head(sQueue).c
         call == sCalls[c]
         prev == call.previousResultPromise
     IN IF call.previousState = "Pending"
          THEN \* line 357: resultPromise = previousResultPromise.then(...), then 371, 372
            /\ sDer' = [sDer EXCEPT ![c] = SPending]
            /\ IF Settled(StateOf(prev))
                 THEN /\ sQueue' = Tail(sQueue) \o <<STask("chain", c, 0), STask("thenJobRet", c, 0)>>
                      /\ UNCHANGED sReact
                 ELSE /\ sQueue' = Append(Tail(sQueue), STask("thenJobRet", c, 0))
                      /\ sReact' = [sReact EXCEPT ![prev.c][prev.kind] =
                                      Append(@, [kind |-> "chain", c |-> c])]
            /\ sCalls' = [sCalls EXCEPT ![c].pc = "returned",
                                        ![c].resultPromise = PromiseId("der", c)]
            /\ synchronizationLocks' =
                 [synchronizationLocks EXCEPT ![call.lock] = PromiseId("der", c)]
          ELSE \* line 366: await previousResultPromise.catch(error => error)
            /\ sCalls' = [sCalls EXCEPT ![c].pc = "awaitingPrevious"]
            /\ sQueue' = Append(Tail(sQueue), STask("awaitPrevious", c, AwaitCatchHops))
            /\ UNCHANGED <<sDer, sReact, synchronizationLocks>>
  /\ UNCHANGED <<sArgs, sOp, sRet>>

\* synchronized resumes in the default case, lines 366, 371, 372.
RunAwaitPrevious ==
  /\ OnlySync
  /\ SHeadIs("awaitPrevious")
  /\ Head(sQueue).hops = 1
  /\ LET c == Head(sQueue).c
         call == sCalls[c]
     IN /\ sArgs' = [sArgs EXCEPT ![c] =
                       SettledArgs(call.previousState, StateOf(call.previousResultPromise))]
        /\ sOp' = [sOp EXCEPT ![c] = SPending]
        /\ sCalls' = [sCalls EXCEPT ![c].pc = "returned",
                                    ![c].resultPromise = PromiseId("op", c)]
        /\ synchronizationLocks' =
             [synchronizationLocks EXCEPT ![call.lock] = PromiseId("op", c)]
        /\ sQueue' = Append(Tail(sQueue), STask("thenJobRet", c, 0))
  /\ UNCHANGED <<sDer, sRet, sReact>>

\* The reaction of previousResultPromise.then(...), line 357: the operation is invoked,
\* and the derived promise is resolved with the promise it returns.
RunChain ==
  /\ OnlySync
  /\ SHeadIs("chain")
  /\ LET c == Head(sQueue).c
         prev == StateOf(sCalls[c].previousResultPromise)
     IN /\ sArgs' = [sArgs EXCEPT ![c] = ChainArgs(prev)]
        /\ sOp' = [sOp EXCEPT ![c] = SPending]
        /\ sQueue' = Append(Tail(sQueue), STask("thenJobDer", c, 0))
  /\ UNCHANGED <<synchronizationLocks, sCalls, sDer, sRet, sReact>>

\* A promise resolved with another promise subscribes to it in a job of its own: the
\* derived promise of line 357 subscribes to the operation's promise.
RunThenJobDer ==
  /\ OnlySync
  /\ SHeadIs("thenJobDer")
  /\ LET c == Head(sQueue).c IN
       IF Settled(sOp[c])
         THEN sQueue' = Append(Tail(sQueue), STask("adoptDer", c, 0)) /\ UNCHANGED sReact
         ELSE /\ sQueue' = Tail(sQueue)
              /\ sReact' = [sReact EXCEPT ![c].op = Append(@, [kind |-> "adoptDer", c |-> c])]
  /\ UNCHANGED <<synchronizationLocks, sCalls, sArgs, sOp, sDer, sRet>>

\* The derived promise takes the outcome of the operation's promise; its own reactions
\* are queued.
RunAdoptDer ==
  /\ OnlySync
  /\ SHeadIs("adoptDer")
  /\ LET c == Head(sQueue).c IN
       /\ sDer' = [sDer EXCEPT ![c] = sOp[c]]
       /\ sQueue' = Tail(sQueue) \o ReactionJobs(sReact[c].der)
       /\ sReact' = [sReact EXCEPT ![c].der = <<>>]
  /\ UNCHANGED <<synchronizationLocks, sCalls, sArgs, sOp, sRet>>

\* `return resultPromise`, line 372: the promise of the async function subscribes to
\* resultPromise.
RunThenJobRet ==
  /\ OnlySync
  /\ SHeadIs("thenJobRet")
  /\ LET c == Head(sQueue).c
         target == sCalls[c].resultPromise
     IN IF Settled(StateOf(target))
          THEN sQueue' = Append(Tail(sQueue), STask("adoptRet", c, 0)) /\ UNCHANGED sReact
          ELSE /\ sQueue' = Tail(sQueue)
               /\ sReact' = [sReact EXCEPT ![target.c][target.kind] =
                               Append(@, [kind |-> "adoptRet", c |-> c])]
  /\ UNCHANGED <<synchronizationLocks, sCalls, sArgs, sOp, sDer, sRet>>

\* The promise returned by synchronized takes the outcome of resultPromise.
RunAdoptRet ==
  /\ OnlySync
  /\ SHeadIs("adoptRet")
  /\ LET c == Head(sQueue).c IN
       sRet' = [sRet EXCEPT ![c] = StateOf(sCalls[c].resultPromise)]
  /\ sQueue' = Tail(sQueue)
  /\ UNCHANGED <<synchronizationLocks, sCalls, sArgs, sOp, sDer, sReact>>

\* External event: the promise returned by call c's operation settles.
SyncOpSettles(c, st) ==
  /\ OnlySync
  /\ sOp[c].st = "Pending"
  /\ sOp' = [sOp EXCEPT ![c] = st]
  /\ sQueue' = sQueue \o ReactionJobs(sReact[c].op)
  /\ sReact' = [sReact EXCEPT ![c].op = <<>>]
  /\ UNCHANGED <<synchronizationLocks, sCalls, sArgs, sDer, sRet>>

SyncOpFulfils == \E c \in DOMAIN sCalls : SyncOpSettles(c, SState("Fulfilled", SVal("value", c)))

SyncOpRejects == \E c \in DOMAIN sCalls : SyncOpSettles(c, SState("Rejected", SVal("error", c)))

-----------------------------------------------------------------------------
\* timeoutResolve, lines 281-293, and timeoutReject, lines 307-319, on top of
\* delayedResolve, lines 245-250, delayedReject, lines 260-266, and promiseState.
\*
\* The timer callback and the settling of the operation's promise are tasks of the host:
\* they run only when no reaction job is left.  A promise returned by the fallback
\* function is created inside a reaction job and may settle at any time after it.

TimeoutKinds == {"resolve", "reject"}
FallbackShapes == {"literal", "supplier", "deferred", "supplierDeferred"}
IsSupplier(shape) == shape \in {"supplier", "supplierDeferred"}
IsDeferred(shape) == shape \in {"deferred", "supplierDeferred"}

TVal(tag) == SVal(tag, 0)
OpOutcome(st) == IF st = "Fulfilled" THEN SState(st, TVal("opValue")) ELSE SState(st, TVal("opError"))
FbOutcome(st) == IF st = "Fulfilled" THEN SState(st, TVal("fbValue")) ELSE SState(st, TVal("fbError"))
\* line 290 / 316: the object yielded when the operation is found settled.
Placeholder == SState("Fulfilled", TVal("placeholder"))

TimeoutIdle ==
  /\ tPc = "idle"
  /\ tKind = "resolve"
  /\ tShape = "literal"
  /\ tOp = SNone
  /\ tTimer = "unset"
  /\ tProbe = "none"
  /\ tSupplierCalls = 0
  /\ tFb = SNone
  /\ tFbWaited = FALSE
  /\ tQ = SNone
  /\ tDelayed = SNone
  /\ tRet = SNone
  /\ tOpFirst = FALSE
  /\ tQueue = <<>>

THeadIs(kind) == tQueue # <<>> /\ Head(tQueue).kind = kind

\* Promise.race, lines 283 / 309: the first settlement it is told of decides.
RaceSettle_LastWins(ret, p) == p
RaceSettle(ret, p) == IF ret.st = "Pending" THEN p ELSE ret

\* timeoutResolve(operation, ms, result) / timeoutReject(operation, ms, rejectReason),
\* lines 282-283 / 308-309: the operation's promise is obtained (it may be settled
\* already), the timer is set, and Promise.race subscribes to both promises.
CallTimeout ==
  /\ OnlyTimeout
  /\ tPc = "idle"
  /\ \E kind \in TimeoutKinds, shape \in FallbackShapes,
        op \in {SPending, OpOutcome("Fulfilled"), OpOutcome("Rejected")} :
       /\ tKind' = kind
       /\ tShape' = shape
       /\ tOp' = op
       /\ tOpFirst' = Settled(op)
       /\ tQueue' = IF Settled(op) THEN <<STask("raceOp", 0, 0)>> ELSE <<>>
       /\ tFb' = IF shape = "deferred" THEN SPending ELSE SNone
  /\ tPc' = "racing"
  /\ tTimer' = "armed"
  /\ tDelayed' = SPending
  /\ tRet' = SPending
  /\ UNCHANGED <<tProbe, tSupplierCalls, tFbWaited, tQ>>

\* External event: the operation's promise settles.
TimeoutOpSettles ==
  /\ OnlyTimeout
  /\ tPc = "racing"
  /\ tQueue = <<>>
  /\ tOp.st = "Pending"
  /\ \E st \in {"Fulfilled", "Rejected"} : tOp' = OpOutcome(st)
  /\ tOpFirst' = (tTimer = "armed")
  /\ tQueue' = <<STask("raceOp", 0, 0)>>
  /\ UNCHANGED <<tPc, tKind, tShape, tTimer, tProbe, tSupplierCalls, tFb, tFbWaited, tQ,
                 tDelayed, tRet>>

\* External event: the promise given as, or returned by, result / rejectReason settles.
FallbackSettles ==
  /\ OnlyTimeout
  /\ tFb.st = "Pending"
  /\ \E st \in {"Fulfilled", "Rejected"} : tFb' = FbOutcome(st)
  /\ tQueue' = IF tFbWaited THEN Append(tQueue, STask("adoptFallback", 0, 0)) ELSE tQueue
  /\ UNCHANGED <<tPc, tKind, tShape, tOp, tTimer, tProbe, tSupplierCalls, tFbWaited, tQ,
                 tDelayed, tRet, tOpFirst>>

\* External event: the timer fires, lines 247 / 262: the function of lines 286 / 312 is
\* called and promiseState(promise) observes the operation's promise.
TimeoutTimerFires ==
  /\ OnlyTimeout
  /\ tTimer = "armed"
  /\ tQueue = <<>>
  /\ tTimer' = "fired"
  /\ tProbe' = PromiseState(tOp)
  /\ tQ' = SPending
  /\ tQueue' = <<STask("fallback", 0, PromiseStateHops)>>
  /\ UNCHANGED <<tPc, tKind, tShape, tOp, tSupplierCalls, tFb, tFbWaited, tDelayed, tRet,
                 tOpFirst>>

\* A reaction job that only passes a settlement on to the next promise of a chain.
RunTimeoutHop ==
  /\ OnlyTimeout
  /\ tQueue # <<>>
  /\ Head(tQueue).hops > 1
  /\ tQueue' = Append(Tail(tQueue), [Head(tQueue) EXCEPT !.hops = @ - 1])
  /\ UNCHANGED <<tPc, tKind, tShape, tOp, tTimer, tProbe, tSupplierCalls, tFb, tFbWaited, tQ,
                 tDelayed, tRet, tOpFirst>>

\* Promise.race's reaction to the operation's promise.
RunRaceOp ==
  /\ OnlyTimeout
  /\ THeadIs("raceOp")
  /\ tRet' = RaceSettle(tRet, tOp)
  /\ tQueue' = Tail(tQueue)
  /\ UNCHANGED <<tPc, tKind, tShape, tOp, tTimer, tProbe, tSupplierCalls, tFb, tFbWaited, tQ,
                 tDelayed, tOpFirst>>

\* From the settlement of the function's promise to the settlement of the delayed
\* promise: resolve(promise) follows it in one job (line 247); delayedReject goes through
\* .catch(error => error).then(r => reject(r)), two jobs (line 264).
DelayedResolveHops == 1
DelayedRejectHops == 2
DelayedHops(kind) == IF kind = "resolve" THEN DelayedResolveHops ELSE DelayedRejectHops

\* The handler of lines 287-290 / 313-316: with the operation found Pending the result /
\* rejectReason is taken, calling it if it is a function; otherwise the placeholder.
RunFallback ==
  /\ OnlyTimeout
  /\ THeadIs("fallback")
  /\ Head(tQueue).hops = 1
  /\ IF tProbe = "Pending"
       THEN /\ tSupplierCalls' = IF IsSupplier(tShape) THEN tSupplierCalls + 1 ELSE tSupplierCalls
            /\ IF IsDeferred(tShape)
                 THEN \* the handler returns a promise: its outcome is adopted later
                   /\ tFb' = IF tShape = "supplierDeferred" THEN SPending ELSE tFb
                   /\ tQueue' = Append(Tail(tQueue), STask("subscribeFallback", 0, 0))
                   /\ UNCHANGED tQ
                 ELSE
                   /\ tQ' = SState("Fulfilled", TVal("fallback"))
                   /\ tQueue' = Append(Tail(tQueue), STask("settleDelayed", 0, DelayedHops(tKind)))
                   /\ UNCHANGED tFb
       ELSE /\ tQ' = Placeholder
            /\ tQueue' = Append(Tail(tQueue), STask("settleDelayed", 0, DelayedHops(tKind)))
            /\ UNCHANGED <<tSupplierCalls, tFb>>
  /\ UNCHANGED <<tPc, tKind, tShape, tOp, tTimer, tProbe, tFbWaited, tDelayed, tRet, tOpFirst>>

\* The function's promise, resolved with the fallback promise, subscribes to it.
RunSubscribeFallback ==
  /\ OnlyTimeout
  /\ THeadIs("subscribeFallback")
  /\ IF Settled(tFb)
       THEN tQueue' = Append(Tail(tQueue), STask("adoptFallback", 0, 0)) /\ UNCHANGED tFbWaited
       ELSE tQueue' = Tail(tQueue) /\ tFbWaited' = TRUE
  /\ UNCHANGED <<tPc, tKind, tShape, tOp, tTimer, tProbe, tSupplierCalls, tFb, tQ, tDelayed,
                 tRet, tOpFirst>>

\* The function's promise takes the outcome of the fallback promise.
RunAdoptFallback ==
  /\ OnlyTimeout
  /\ THeadIs("adoptFallback")
  /\ tQ' = tFb
  /\ tQueue' = Append(Tail(tQueue), STask("settleDelayed", 0, DelayedHops(tKind)))
  /\ UNCHANGED <<tPc, tKind, tShape, tOp, tTimer, tProbe, tSupplierCalls, tFb, tFbWaited,
                 tDelayed, tRet, tOpFirst>>

\* How the delayed promise settles from the function's promise q: delayedResolve takes
\* its outcome as it is (line 247); delayedReject rejects with its value or its reason
\* (line 264).
DelayedSettlement_Adopt(kind, q) == q
DelayedSettlement(kind, q) == IF kind = "resolve" THEN q ELSE SState("Rejected", q.val)

RunSettleDelayed ==
  /\ OnlyTimeout
  /\ THeadIs("settleDelayed")
  /\ Head(tQueue).hops = 1
  /\ tDelayed' = DelayedSettlement(tKind, tQ)
  /\ tQueue' = Append(Tail(tQueue), STask("raceDelayed", 0, 0))
  /\ UNCHANGED <<tPc, tKind, tShape, tOp, tTimer, tProbe, tSupplierCalls, tFb, tFbWaited, tQ,
                 tRet, tOpFirst>>

\* Promise.race's reaction to the delayed promise.
RunRaceDelayed ==
  /\ OnlyTimeout
  /\ THeadIs("raceDelayed")
  /\ tRet' = RaceSettle(tRet, tDelayed)
  /\ tQueue' = Tail(tQueue)
  /\ UNCHANGED <<tPc, tKind, tShape, tOp, tTimer, tProbe, tSupplierCalls, tFb, tFbWaited, tQ,
                 tDelayed, tOpFirst>>

-----------------------------------------------------------------------------
\* promiseState, lines 328-332, job by job.  The promise p belongs to the caller and may
\* settle at any time.

ProbeIdle ==
  /\ bP = SPending
  /\ bProbes = <<>>
  /\ bReact = <<>>
  /\ bQueue = <<>>

BHeadIs(kind) == bQueue # <<>> /\ Head(bQueue).kind = kind

\* line 329: const t = {}, a fresh object for each call.
Sentinel(c) == SVal("sentinel", c)
\* The PromiseState the returned promise fulfils with.
StateValue(st) == SVal(st, 0)

\* line 330: Promise.race([p, t]) subscribes to p, then to a promise fulfilled with t.
\* The reaction to a settled p is queued at once, ahead of the reaction to t.
RaceJobs_SentinelFirst(c, p) ==
  IF Settled(p) THEN <<STask("raceSentinel", c, 0), STask("raceTarget", c, 0)>>
  ELSE <<STask("raceSentinel", c, 0)>>
RaceJobs(c, p) ==
  IF Settled(p) THEN <<STask("raceTarget", c, 0), STask("raceSentinel", c, 0)>>
  ELSE <<STask("raceSentinel", c, 0)>>

\* line 331: .then(v => (v === t) ? Pending : Fulfilled, () => Rejected)
ProbeHandler_NoRejectionHandler(race, c) ==
  IF race.st = "Rejected" THEN race
  ELSE IF race.val = Sentinel(c) THEN SState("Fulfilled", StateValue("Pending"))
  ELSE SState("Fulfilled", StateValue("Fulfilled"))
ProbeHandler(race, c) ==
  IF race.st = "Rejected" THEN SState("Fulfilled", StateValue("Rejected"))
  ELSE IF race.val = Sentinel(c) THEN SState("Fulfilled", StateValue("Pending"))
  ELSE SState("Fulfilled", StateValue("Fulfilled"))

\* promiseState(p), lines 329-331.
CallPromiseState ==
  /\ OnlyProbe
  /\ Len(bProbes) < MaxProbes
  /\ LET c == Len(bProbes) + 1 IN
       /\ bProbes' = Append(bProbes, [atCall |-> PromiseState(bP), race |-> SPending,
                                      result |-> SPending])
       /\ bQueue' = bQueue \o RaceJobs(c, bP)
       /\ bReact' = IF Settled(bP) THEN bReact ELSE Append(bReact, c)
  /\ UNCHANGED bP

\* External event: p settles.
ProbedPromiseSettles ==
  /\ OnlyProbe
  /\ bP.st = "Pending"
  /\ \E st \in {"Fulfilled", "Rejected"} :
       bP' = SState(st, SVal(IF st = "Fulfilled" THEN "value" ELSE "error", 0))
  /\ bQueue' = bQueue \o [i \in DOMAIN bReact |-> STask("raceTarget", bReact[i], 0)]
  /\ bReact' = <<>>
  /\ UNCHANGED bProbes

\* Promise.race is told of a settlement: the first one decides and queues the handler of
\* line 331.
RaceReaction(c, settlement) ==
  /\ bProbes' = [bProbes EXCEPT ![c].race = RaceSettle(@, settlement)]
  /\ bQueue' = IF bProbes[c].race.st = "Pending"
                 THEN Append(Tail(bQueue), STask("probeHandler", c, 0))
                 ELSE Tail(bQueue)
  /\ UNCHANGED <<bP, bReact>>

RunRaceTarget ==
  /\ OnlyProbe
  /\ BHeadIs("raceTarget")
  /\ RaceReaction(Head(bQueue).c, bP)

RunRaceSentinel ==
  /\ OnlyProbe
  /\ BHeadIs("raceSentinel")
  /\ RaceReaction(Head(bQueue).c, SState("Fulfilled", Sentinel(Head(bQueue).c)))

RunProbeHandler ==
  /\ OnlyProbe
  /\ BHeadIs("probeHandler")
  /\ LET c == Head(bQueue).c IN
       bProbes' = [bProbes EXCEPT ![c].result = ProbeHandler(bProbes[c].race, c)]
  /\ bQueue' = Tail(bQueue)
  /\ UNCHANGED <<bP, bReact>>

-----------------------------------------------------------------------------
\* delayedResolve, lines 245-250, and delayedReject, lines 260-266.  A promise given as
\* result / reason exists before the call and may settle before the timer fires; one
\* returned by the function exists from the moment the function is called.

DelayedIdle ==
  /\ dPc = "idle"
  /\ dKind = "resolve"
  /\ dMs = 0
  /\ dClock = 0
  /\ dShape = "literal"
  /\ dTimer = "unset"
  /\ dSupplierCalls = 0
  /\ dNested = SNone
  /\ dWaited = FALSE
  /\ dRet = SNone
  /\ dQueue = <<>>

DHeadIs(kind) == dQueue # <<>> /\ Head(dQueue).kind = kind

\* lines 248 / 263: typeof result === 'function' ? result() : result, as the number of
\* calls of the function so far.
TakeArgument_NotCalled(shape, calls) == calls
TakeArgument(shape, calls) == IF IsSupplier(shape) THEN calls + 1 ELSE calls

\* What the timer callback has in hand: the literal (or supplied) value as a fulfilled
\* source, or the nested promise.
DelayedSource == IF IsDeferred(dShape) THEN dNested ELSE SState("Fulfilled", TVal("fallback"))

\* delayedResolve(ms, result) / delayedReject(ms, reason), lines 247 / 262: the timer is
\* set, nothing else happens.
CallDelayed ==
  /\ OnlyDelayed
  /\ dPc = "idle"
  /\ \E kind \in TimeoutKinds, shape \in FallbackShapes, ms \in 0..MaxMs,
        nested \in {SPending, FbOutcome("Fulfilled"), FbOutcome("Rejected")} :
       /\ dKind' = kind
       /\ dShape' = shape
       /\ dMs' = ms
       /\ dNested' = IF shape = "deferred" THEN nested ELSE SNone
  /\ dPc' = "called"
  /\ dTimer' = "armed"
  /\ dRet' = SPending
  /\ UNCHANGED <<dClock, dSupplierCalls, dWaited, dQueue>>

\* Time passes, between tasks of the host.
DelayedTick ==
  /\ OnlyDelayed
  /\ dPc = "called"
  /\ dQueue = <<>>
  /\ dClock < MaxMs
  /\ dClock' = dClock + 1
  /\ UNCHANGED <<dPc, dKind, dMs, dShape, dTimer, dSupplierCalls, dNested, dWaited, dRet, dQueue>>

\* External event: the nested promise settles.
NestedSettles ==
  /\ OnlyDelayed
  /\ dNested.st = "Pending"
  /\ \E st \in {"Fulfilled", "Rejected"} : dNested' = FbOutcome(st)
  /\ dQueue' = IF dWaited THEN Append(dQueue, STask("settle", 0, DelayedHops(dKind))) ELSE dQueue
  /\ UNCHANGED <<dPc, dKind, dMs, dClock, dShape, dTimer, dSupplierCalls, dWaited, dRet>>

\* External event: the timer fires, lines 247-249 / 262-265.  delayedResolve resolves the
\* returned promise at once: a plain value fulfils it, a promise is subscribed to in a
\* job of its own.  delayedReject starts Promise.resolve(r).catch(...).then(...).
DelayedTimerFires ==
  /\ OnlyDelayed
  /\ dTimer = "armed"
  /\ dQueue = <<>>
  /\ dClock >= dMs
  /\ dTimer' = "fired"
  /\ dSupplierCalls' = TakeArgument(dShape, dSupplierCalls)
  /\ dNested' = IF dShape = "supplierDeferred" THEN SPending ELSE dNested
  /\ IF dKind = "resolve"
       THEN IF IsDeferred(dShape)
              THEN /\ dQueue' = <<STask("subscribeNested", 0, 0)>>
                   /\ UNCHANGED <<dRet, dWaited>>
              ELSE /\ dRet' = DelayedSettlement(dKind, DelayedSource)
                   /\ UNCHANGED <<dQueue, dWaited>>
       ELSE IF IsDeferred(dShape) /\ ~Settled(dNested')
              THEN /\ dWaited' = TRUE
                   /\ UNCHANGED <<dRet, dQueue>>
              ELSE /\ dQueue' = <<STask("settle", 0, DelayedRejectHops)>>
                   /\ UNCHANGED <<dRet, dWaited>>
  /\ UNCHANGED <<dPc, dKind, dMs, dClock, dShape>>

\* delayedResolve: the returned promise, resolved with the nested promise, subscribes.
RunSubscribeNested ==
  /\ OnlyDelayed
  /\ DHeadIs("subscribeNested")
  /\ IF Settled(dNested)
       THEN dQueue' = Append(Tail(dQueue), STask("settle", 0, DelayedResolveHops)) /\ UNCHANGED dWaited
       ELSE dQueue' = Tail(dQueue) /\ dWaited' = TRUE
  /\ UNCHANGED <<dPc, dKind, dMs, dClock, dShape, dTimer, dSupplierCalls, dNested, dRet>>

\* A reaction job that only passes a settlement on to the next promise of a chain.
RunDelayedHop ==
  /\ OnlyDelayed
  /\ dQueue # <<>>
  /\ Head(dQueue).hops > 1
  /\ dQueue' = Append(Tail(dQueue), [Head(dQueue) EXCEPT !.hops = @ - 1])
  /\ UNCHANGED <<dPc, dKind, dMs, dClock, dShape, dTimer, dSupplierCalls, dNested, dWaited, dRet>>

\* The returned promise settles: resolve adopts the source, reject(r) rejects with its
\* value or reason.
RunSettle ==
  /\ OnlyDelayed
  /\ DHeadIs("settle")
  /\ Head(dQueue).hops = 1
  /\ dRet' = DelayedSettlement(dKind, DelayedSource)
  /\ dQueue' = Tail(dQueue)
  /\ UNCHANGED <<dPc, dKind, dMs, dClock, dShape, dTimer, dSupplierCalls, dNested, dWaited>>

-----------------------------------------------------------------------------
\* FIBONACCI_SEQUENCE, line 12, and EXPONENTIAL_SEQUENCE, line 25, used as documented
\* in lines 5-6 and 18-19: a slice of the table is the backoff array of withRetry,
\* which looks its delays up in turn (line 120).

FIBONACCI_SEQUENCE ==
  <<1, 2, 3, 5, 8, 13, 21, 34, 55, 89, 144, 233, 377, 610, 987, 1597, 2584, 4181, 6765,
    10946, 17711, 28657, 46368, 75025, 121393, 196418, 317811>>

EXPONENTIAL_SEQUENCE ==
  <<1, 2, 4, 8, 16, 32, 64, 128, 256, 512, 1024, 2048, 4096, 8192, 16384, 1597, 32768,
    65536, 131072, 262144, 524288, 1048576, 2097152, 4194304, 8388608, 16777216,
    33554432>>

SequenceTable(name) == IF name = "fibonacci" THEN FIBONACCI_SEQUENCE ELSE EXPONENTIAL_SEQUENCE

\* array.slice(0, end) for end >= 0: an end past the array takes all of it.
Slice(array, end) == SubSeq(array, 1, IF end < Len(array) THEN end ELSE Len(array))

SeqIdle ==
  /\ qTable = "none"
  /\ qBackoff = [kind |-> "array", delays |-> <<>>]
  /\ qAttempt = 1
  /\ qPrev = 0
  /\ qCur = 0

\* lines 6 / 19: TABLE.slice(0, n) is handed to withRetry as its backoff.
TakeSlice ==
  /\ OnlySeq
  /\ qTable = "none"
  /\ \E name \in {"fibonacci", "exponential"}, end \in 0..MaxSlice :
       /\ qTable' = name
       /\ qBackoff' = [kind |-> "array", delays |-> Slice(SequenceTable(name), end)]
  /\ UNCHANGED <<qAttempt, qPrev, qCur>>

\* line 120: backoff[attempt - 1] for the next attempt, while the array has a delay
\* for it.
LookUpDelay ==
  /\ OnlySeq
  /\ qTable # "none"
  /\ BackoffMs(qBackoff, qAttempt) # <<>>
  /\ qPrev' = qCur
  /\ qCur' = BackoffMs(qBackoff, qAttempt)[1]
  /\ qAttempt' = qAttempt + 1
  /\ UNCHANGED <<qTable, qBackoff>>

-----------------------------------------------------------------------------
\* Specifications: one per component, each from the state before any call.

InitPar == ParIdle /\ RetryIdle /\ SyncIdle /\ TimeoutIdle /\ ProbeIdle /\ DelayedIdle /\ SeqIdle

NextPar ==
  \/ CallInParallel
  \/ CallWithConcurrency
  \/ OpFulfils
  \/ OpRejects
  \/ RunCatch
  \/ RunResume
  \/ RunAllFulfil
  \/ RunAllReject
  \/ RunIpResume
  \/ RunWcThenJob
  \/ RunWcAdopt

SpecPar == InitPar /\ [][NextPar]_vars

\* inParallel alone, with progress: as long as a reaction job is queued or an invoked
\* operation is pending, one of them runs or settles.  Jobs and settlements do not
\* disable one another, so every queued job is run and every operation settles.
InParallelReactionJob ==
  \/ RunCatch
  \/ RunResume
  \/ RunAllFulfil
  \/ RunAllReject
  \/ RunIpResume

NextInParallel ==
  \/ CallInParallel
  \/ OpFulfils
  \/ OpRejects
  \/ InParallelReactionJob

SpecInParallelLive ==
  /\ InitPar
  /\ [][NextInParallel]_vars
  /\ WF_vars(InParallelReactionJob \/ OpFulfils \/ OpRejects)

InitRetry == ParIdle /\ RetryIdle /\ SyncIdle /\ TimeoutIdle /\ ProbeIdle /\ DelayedIdle /\ SeqIdle

NextRetry ==
  \/ CallWithRetry
  \/ OperationSettles
  \/ RunCapture
  \/ RunNextParameter
  \/ TimerFires
  \/ RunNextAttempt
  \/ RunUnwrap

SpecRetry == InitRetry /\ [][NextRetry]_vars

InitSync == ParIdle /\ RetryIdle /\ SyncIdle /\ TimeoutIdle /\ ProbeIdle /\ DelayedIdle /\ SeqIdle

NextSync ==
  \/ CallSynchronized
  \/ RunHop
  \/ RunProbe
  \/ RunAwaitPrevious
  \/ RunChain
  \/ RunThenJobDer
  \/ RunAdoptDer
  \/ RunThenJobRet
  \/ RunAdoptRet
  \/ SyncOpFulfils
  \/ SyncOpRejects

SpecSync == InitSync /\ [][NextSync]_vars

\* The reaction jobs of synchronized: the job queue is run until it is empty.
SyncReactionJob ==
  \/ RunHop
  \/ RunProbe
  \/ RunAwaitPrevious
  \/ RunChain
  \/ RunThenJobDer
  \/ RunAdoptDer
  \/ RunThenJobRet
  \/ RunAdoptRet

\* SpecSync with progress: as long as a reaction job is queued or an invoked operation
\* is pending, one of them runs or settles, so every queued job is run and the promise
\* returned by every invoked operation settles in the end.
SpecSyncLive ==
  /\ SpecSync
  /\ WF_vars(SyncReactionJob \/ SyncOpFulfils \/ SyncOpRejects)

InitTimeout == ParIdle /\ RetryIdle /\ SyncIdle /\ TimeoutIdle /\ ProbeIdle /\ DelayedIdle /\ SeqIdle

NextTimeout ==
  \/ CallTimeout
  \/ TimeoutOpSettles
  \/ FallbackSettles
  \/ TimeoutTimerFires
  \/ RunTimeoutHop
  \/ RunRaceOp
  \/ RunFallback
  \/ RunSubscribeFallback
  \/ RunAdoptFallback
  \/ RunSettleDelayed
  \/ RunRaceDelayed

SpecTimeout == InitTimeout /\ [][NextTimeout]_vars

InitProbe == ParIdle /\ RetryIdle /\ SyncIdle /\ TimeoutIdle /\ ProbeIdle /\ DelayedIdle /\ SeqIdle

NextProbe ==
  \/ CallPromiseState
  \/ ProbedPromiseSettles
  \/ RunRaceTarget
  \/ RunRaceSentinel
  \/ RunProbeHandler

SpecProbe == InitProbe /\ [][NextProbe]_vars

InitDelayed == ParIdle /\ RetryIdle /\ SyncIdle /\ TimeoutIdle /\ ProbeIdle /\ DelayedIdle /\ SeqIdle

NextDelayed ==
  \/ CallDelayed
  \/ DelayedTick
  \/ NestedSettles
  \/ DelayedTimerFires
  \/ RunSubscribeNested
  \/ RunDelayedHop
  \/ RunSettle

SpecDelayed == InitDelayed /\ [][NextDelayed]_vars

InitSeq == ParIdle /\ RetryIdle /\ SyncIdle /\ TimeoutIdle /\ ProbeIdle /\ DelayedIdle /\ SeqIdle

NextSeq ==
  \/ TakeSlice
  \/ LookUpDelay

SpecSeq == InitSeq /\ [][NextSeq]_vars

-----------------------------------------------------------------------------
\* Properties of inParallel / withConcurrency.

DefaultMode == entry = "inParallel" /\ options \in {"undefined", "false"}
AbortMode == entry = "inParallel" /\ options = "true"
InFlight == {n \in DOMAIN invoked : opSt[n].st = "Pending"}
Thrown == {w \in DOMAIN workers : workers[w].pc = "thrown"}
MaxOf(a, b) == IF a >= b THEN a ELSE b
\* The worker that ran invocation n has resumed after awaiting it.
Resumed(n) == ~(workers[invoked[n].w].pc = "await" /\ workers[invoked[n].w].op = n)

\* C2: whenever some job's operation rejects, the promise returned by withConcurrency
\* rejects with that job's error; it never resolves with an array holding the error.
C2_WithConcurrencyRejectsOnFailure ==
  (entry = "withConcurrency" /\ firstRejected # 0 /\ wcSt.st # "Pending")
    => /\ wcSt.st = "Rejected"
       /\ \E n \in DOMAIN invoked : opSt[n] = wcSt

\* C3: in every reachable state of an inParallel or withConcurrency call, the number of
\* operations invoked and not yet settled is at most max(1, floor(parallelism)).
C3_BoundedConcurrency ==
  entry # "none" => Cardinality(InFlight) <= MaxOf(1, Floor(parallelism))

\* A fractional parallelism of 2.5: two operations in flight, one of them pulled by a
\* worker that has already finished an earlier job.
C3_Witness ==
  /\ entry # "none"
  /\ parallelism = <<5, 2>>
  /\ Cardinality(InFlight) = 2
  /\ Len(invoked) = 3

\* C4: in default mode the array inParallel resolves with has the length of the job
\* list, and results[i] is the fulfilled value of operation(jobs[i], i) or its
\* rejection reason, whatever the completion order.
C4_ResultsInInputOrder ==
  (DefaultMode /\ ipSt.st = "Fulfilled")
    => /\ ipSt.val = JobResultsRef
       /\ Len(jobResults) = Len(jobs)
       /\ \A i \in 1..Len(jobs) :
            \E n \in DOMAIN invoked :
              /\ invoked[n].job = jobs[i]
              /\ invoked[n].index = i - 1
              /\ \/ opSt[n] = PromiseFulfilled(OpValue(jobs[i], i - 1))
                 \/ opSt[n] = PromiseRejected(OpReason(jobs[i], i - 1))
              /\ jobResults[i] = opSt[n].val

\* Three jobs on two workers, resolved: the second job completed before the first (its
\* worker went on to run the third), the first rejected and the second fulfilled.
C4_Witness ==
  /\ DefaultMode
  /\ ipSt.st = "Fulfilled"
  /\ Len(invoked) = 3
  /\ invoked[3].w = 2
  /\ opSt[1].st = "Rejected"
  /\ opSt[2].st = "Fulfilled"

\* C5: in abort mode (abortOnError true, and withConcurrency), once a job has failed and
\* the error is re-thrown, no further job is pulled or passed to the operation, on
\* whichever worker.
C5_NoPullAfterFailure ==
  [][((AbortMode \/ entry = "withConcurrency") /\ Thrown # {}) => invoked' = invoked]_vars

\* C6: with abortOnError true the promise returned by inParallel rejects with the reason
\* of the operation that rejected first in time, as soon as the reaction jobs of that
\* rejection have run and without waiting for operations in flight; later failures do
\* not change the reason.
C6_AbortRejectsWithFirstFailure ==
  AbortMode =>
    /\ ipSt.st = "Rejected" => (firstRejected # 0 /\ ipSt.val = opSt[firstRejected].val)
    /\ firstRejected # 0 => ipSt.st # "Fulfilled"
    /\ (firstRejected # 0 /\ pQueue = <<>>) => ipSt.st = "Rejected"

\* Rejected while an operation is still in flight and after a second job failed too.
C6_Witness ==
  /\ AbortMode
  /\ ipSt.st = "Rejected"
  /\ InFlight # {}
  /\ \E n \in DOMAIN invoked : n # firstRejected /\ opSt[n].st = "Rejected"

C8_ResolvesAfterAllSettled ==
  (DefaultMode /\ ipSt.st = "Fulfilled")
    => /\ iterator = Len(jobs)
       /\ Len(invoked) = Len(jobs)
       /\ InFlight = {}

\* Resolved after several jobs on several workers, one of them failed.
C8_Witness ==
  /\ DefaultMode
  /\ ipSt.st = "Fulfilled"
  /\ Len(jobs) >= 2
  /\ Len(workers) >= 2
  /\ \E n \in DOMAIN invoked : opSt[n].st = "Rejected"

\* C30: in default mode on a finite job sequence each element is pulled exactly once
\* and passed to the operation exactly once, with its zero-based position: no two
\* workers receive the same job or index, and no job is skipped.
C30_EachJobOnce ==
  DefaultMode =>
    /\ Len(invoked) <= Len(jobs)
    /\ iterator = Len(invoked)
    /\ \A n \in DOMAIN invoked : invoked[n].index = n - 1 /\ invoked[n].job = jobs[n]
    /\ \A m, n \in DOMAIN invoked : m # n => invoked[m].index # invoked[n].index
    /\ ipSt.st = "Fulfilled" => Len(invoked) = Len(jobs)

\* All jobs of a list went through two workers, alternating out of turn.
C30_Witness ==
  /\ DefaultMode
  /\ ipSt.st = "Fulfilled"
  /\ Len(jobs) = 3
  /\ invoked[1].w = 1
  /\ invoked[2].w = 2
  /\ invoked[3].w = 2

\* C31: inParallel uses its full parallelism: with M jobs and W = max(1,
\* floor(parallelism)) workers, min(M, W) operations are started before any of them
\* settles, and whenever an operation settles while unpulled jobs remain, the worker
\* that ran it starts the next job, so that once the reactions to a settlement have
\* run no worker is idle while the job sequence is not exhausted.
FullParallelism == MaxOf(1, Floor(parallelism))
MinOf(a, b) == IF a <= b THEN a ELSE b
Busy(w) == workers[w].pc = "await" /\ opSt[workers[w].op].st = "Pending"
StartedAtCall ==
  /\ Len(workers) = FullParallelism
  /\ Len(invoked) >= MinOf(Len(jobs), FullParallelism)
  /\ InFlight = DOMAIN invoked => Len(invoked) = MinOf(Len(jobs), FullParallelism)
C31_FullParallelism ==
  entry = "inParallel" =>
    /\ StartedAtCall
    /\ (pQueue = <<>> /\ iterator < Len(jobs)) => \A w \in DOMAIN workers : Busy(w)

\* C31 as it holds: the same, for the workers that have not left their loop by the
\* failure of an operation in abort mode.
C31_FullParallelismOfLiveWorkers ==
  entry = "inParallel" =>
    /\ StartedAtCall
    /\ (pQueue = <<>> /\ iterator < Len(jobs)) =>
         \A w \in DOMAIN workers : w \notin Thrown => Busy(w)

\* Three jobs on two workers: the first operation has settled while the second is
\* still running, and its worker has started the third job.
C31_Witness ==
  /\ entry = "inParallel"
  /\ Len(jobs) = 3
  /\ Len(workers) = 2
  /\ Len(invoked) = 3
  /\ opSt[1].st # "Pending"
  /\ opSt[2].st = "Pending"
  /\ opSt[3].st = "Pending"
  /\ invoked[3].w = invoked[1].w

\* C32: for an empty job sequence inParallel never invokes the operation and resolves
\* to an empty array, for every parallelism value and in both default and abort mode.
C32_EmptyJobs ==
  (entry = "inParallel" /\ jobs = <<>>) =>
    /\ invoked = <<>>
    /\ jobResults = <<>>
    /\ ipSt.st # "Rejected"
    /\ pQueue = <<>> => ipSt = PromiseFulfilled(JobResultsRef)

\* No jobs, abort mode, a fractional parallelism of 2.5: resolved to the empty array.
C32_Witness ==
  /\ entry = "inParallel"
  /\ jobs = <<>>
  /\ options = "true"
  /\ parallelism = <<5, 2>>
  /\ ipSt = PromiseFulfilled(JobResultsRef)
  /\ jobResults = <<>>

\* C37: for a finite job sequence whose operations all settle in the end, the promise
\* returned by inParallel settles in the end: in default mode it resolves (with the
\* outcome array), in abort mode it resolves if no operation rejected and rejects
\* otherwise.
C37_InParallelSettles ==
  /\ <>[](entry = "inParallel" => (ipSt.st # "Pending" /\ pQueue = <<>> /\ InFlight = {}))
  /\ [](DefaultMode /\ ipSt.st # "Pending" => ipSt = PromiseFulfilled(JobResultsRef))
  /\ [](AbortMode /\ ipSt.st # "Pending" =>
         IF firstRejected = 0 THEN ipSt = PromiseFulfilled(JobResultsRef)
                              ELSE ipSt.st = "Rejected")

\* Abort mode, three jobs on two workers: the call has rejected and every operation
\* that was invoked has settled.
C37_Witness ==
  /\ AbortMode
  /\ Len(jobs) = 3
  /\ Len(workers) = 2
  /\ ipSt.st = "Rejected"
  /\ InFlight = {}
  /\ pQueue = <<>>

-----------------------------------------------------------------------------
\* Properties of withRetry.

AllRejecting == \A k \in DOMAIN operation : operation[k] # "fulfil"
NonNegative(ds) == \A i \in DOMAIN ds : ds[i] >= 0
\* The first attempt on which the operation fulfils (0: none).
FirstFulfil == IF AllRejecting THEN 0
               ELSE CHOOSE k \in DOMAIN operation :
                      operation[k] = "fulfil" /\ \A j \in 1..(k - 1) : operation[j] # "fulfil"

\* C9: with a backoff of N non-negative delays (an array, or a function yielding them
\* and then undefined), the default shouldRetry and an operation that rejects on every
\* attempt, withRetry invokes the operation exactly N+1 times and then rejects with the
\* error of the last attempt.
C9_FailingOperationExhaustsBackoff ==
  (rPc = "done" /\ shouldRetry = "default" /\ NonNegative(backoff.delays) /\ AllRejecting)
    => /\ Len(rCalls) = Len(backoff.delays) + 1
       /\ retrySt = OpSettlement(operation[Len(backoff.delays) + 1], Len(backoff.delays) + 1)

\* C10: with a backoff array of N non-negative delays, the default shouldRetry and an
\* operation that first fulfils on attempt K, withRetry invokes the operation exactly K
\* times, waits exactly K-1 backoff delays and resolves with the result of attempt K.
C10_StopsAtFirstSuccess ==
  (rPc = "done" /\ shouldRetry = "default" /\ backoff.kind = "array"
     /\ NonNegative(backoff.delays) /\ FirstFulfil # 0)
    => /\ Len(rCalls) = FirstFulfil
       /\ Len(rWaits) = FirstFulfil - 1
       /\ retrySt = [st |-> "Fulfilled", val |-> RVal("result", FirstFulfil)]

\* How invocation k of the operation settled.
Settlement(k) == OpSettlement(operation[k], k)
LastAttempt == Settlement(Len(rCalls))
\* What invocation k leaves as result and as error for its successors.
ResultOf(k) == IF Settlement(k).st = "Fulfilled" THEN Settlement(k).val ELSE RUndefined
ErrorOf(k) == IF Settlement(k).st = "Rejected" THEN Settlement(k).val ELSE RUndefined

\* C11: when withRetry stops, it rejects if and only if the last attempt rejected, with
\* exactly that attempt's rejection reason whatever its value, and otherwise resolves
\* with exactly the last attempt's result.
C11_SettlesAsLastAttempt == rPc = "done" => retrySt = LastAttempt

\* C12: when shouldRetry answers true but the backoff yields no value or a negative
\* number, no further call to the operation is made and withRetry settles with the
\* outcome of the last attempt; a delay of 0 (or more) leads to a wait and then to
\* another attempt.
C12_UnusableBackoffStops ==
  \A i \in DOMAIN rDecisions :
    LET d == rDecisions[i] IN
    d.retry =>
      IF d.backoffMs = <<>> \/ d.backoffMs[1] < 0
        THEN /\ i = Len(rDecisions)
             /\ Len(rCalls) = d.attempt
             /\ rPc \in {"finished", "done"}
             /\ rPc = "done" => retrySt = LastAttempt
        ELSE /\ Len(rWaits) >= d.attempt
             /\ \/ i = Len(rDecisions) /\ rPc \in {"waiting", "elapsed"}
                \/ Len(rCalls) > d.attempt

\* C13: shouldRetry is evaluated before backoff: when it answers false for an attempt,
\* the backoff is not consulted for that attempt, no delay is waited and no further
\* attempt is made.
C13_ShouldRetryBeforeBackoff ==
  \A i \in DOMAIN rDecisions :
    LET d == rDecisions[i] IN
    ~d.retry =>
      /\ ~d.consulted
      /\ i = Len(rDecisions)
      /\ Len(rCalls) = d.attempt
      /\ Len(rWaits) = d.attempt - 1
      /\ rPc \in {"finished", "done"}

C13_Witness ==
  /\ rPc = "done"
  /\ shouldRetry = "custom"
  /\ backoff = [kind |-> "function", delays |-> <<0, 7>>]
  /\ Len(rDecisions) = 2
  /\ ~rDecisions[2].retry
  /\ operation[2] = "reject"

\* C14: the delay waited between attempt k and attempt k+1 is backoff[k-1] of an array,
\* or backoff(k, result_k, error_k) of a function; the attempt counter starts at 1 and
\* grows by one per scheduled retry, and the delays are consumed in order.
C14_DelaysInOrder ==
  /\ rPc # "idle" => attempt = Len(rWaits) + 1
  /\ \A k \in DOMAIN rWaits :
       /\ k \in DOMAIN backoff.delays
       /\ rWaits[k] = backoff.delays[k]
       /\ rDecisions[k].attempt = k
       /\ backoff.kind = "function" =>
            rDecisions[k].args = [attempt |-> k, result |-> ResultOf(k), error |-> ErrorOf(k)]

C14_Witness ==
  /\ rPc = "done"
  /\ backoff = [kind |-> "function", delays |-> <<7, 0>>]
  /\ rWaits = <<7, 0>>
  /\ operation = <<"reject", "fulfil", "fulfil">>

\* C15: invocation k of the operation receives attempt = k and the result and error of
\* invocation k-1: both undefined on invocation 1, afterwards the fulfilled value or
\* the rejection reason of the previous attempt, never both.
C15_OperationReceivesPrevious ==
  \A k \in DOMAIN rCalls :
    /\ rCalls[k].attempt = k
    /\ rCalls[k].previousResult = (IF k = 1 THEN RUndefined ELSE ResultOf(k - 1))
    /\ rCalls[k].previousError = (IF k = 1 THEN RUndefined ELSE ErrorOf(k - 1))
    /\ rCalls[k].previousResult = RUndefined \/ rCalls[k].previousError = RUndefined

C15_Witness ==
  /\ rPc = "done"
  /\ Len(rCalls) = 3
  /\ operation = <<"reject", "fulfil", "reject">>
  /\ rCalls[2].previousError = RVal("error", 1)
  /\ rCalls[3].previousResult = RVal("result", 2)

\* C16: attempts never overlap: attempt k+1 is invoked only after the promise of
\* attempt k has settled, its outcome has been captured and the backoff delay chosen
\* for it has elapsed.
C16_AttemptsDoNotOverlap ==
  [][(Len(rCalls) >= 1 /\ Len(rCalls') = Len(rCalls) + 1)
       => /\ rPc = "elapsed"
          /\ opPromise = CaptureOutcome(LastAttempt)
          /\ Len(rWaits) = Len(rCalls)]_vars

C16_Witness == Len(rCalls) = 3 /\ rWaits = <<7, 0>> /\ rPc = "pending"

\* The outcome object that captures how invocation k settled.
CapturedOutcome(k) == Outcome(ResultOf(k), ErrorOf(k))
\* The decision on attempt k has been taken.
Decided == rPc \in {"waiting", "elapsed", "finished", "done"}

UsableDelay(k) == BackoffMs(backoff, k) # <<>> /\ BackoffMs(backoff, k)[1] >= 0

\* C34: with a caller-supplied shouldRetry, a further attempt is made after attempt k
\* exactly when shouldRetry answered true and the backoff yields a defined non-negative
\* delay, whether attempt k fulfilled or rejected: withRetry can retry after a success
\* and stop after a failure.
C34_CustomShouldRetryDecides ==
  shouldRetry = "custom" =>
    /\ Len(rCalls) <= Len(rWaits) + 1
    /\ \A k \in DOMAIN rDecisions :
         /\ Len(rWaits) >= k <=> (rDecisions[k].retry /\ UsableDelay(k))
         /\ Len(rWaits) >= k =>
              \/ Len(rCalls) > k
              \/ Len(rCalls) = k /\ rPc \in {"waiting", "elapsed"}
         /\ Len(rWaits) < k => Len(rCalls) = k /\ rPc \in {"finished", "done"}

\* The first attempt fulfilled and was retried; the second rejected and was not,
\* although the backoff had a usable delay left.
C34_Witness ==
  /\ shouldRetry = "custom"
  /\ rPc = "done"
  /\ Len(rCalls) = 2
  /\ operation[1] = "fulfil"
  /\ operation[2] = "reject"
  /\ UsableDelay(2)
  /\ ~rDecisions[2].retry
  /\ retrySt.st = "Rejected"

-----------------------------------------------------------------------------
\* Properties of timeoutResolve / timeoutReject.

\* What the call settles with when the timeout decides: the literal or supplied value
\* (timeoutReject: as the reason), or what the fallback promise settled to.
FallbackResult ==
  IF IsDeferred(tShape)
    THEN DelayedSettlement(tKind, tFb)
    ELSE DelayedSettlement(tKind, SState("Fulfilled", TVal("fallback")))

\* C17: for timeoutResolve and timeoutReject alike, if the operation's promise settles
\* before the timer fires, the returned promise settles with exactly the operation's
\* outcome, value or reason.
C17_OperationFirstDecides ==
  tOpFirst => /\ Settled(tRet) => tRet = tOp
              /\ tQueue = <<>> => Settled(tRet)

C17_Witness ==
  /\ tOpFirst
  /\ tKind = "reject"
  /\ tTimer = "fired"
  /\ tDelayed = SState("Rejected", TVal("placeholder"))
  /\ tQueue = <<>>
  /\ tRet = OpOutcome("Fulfilled")

\* C18: if the operation is still pending when the timer fires, the promise returned by
\* timeoutResolve resolves to the fallback: the literal value, the value returned by the
\* supplier, or what a deferred fallback later settles to.
C18_TimeoutResolvesToFallback ==
  (tKind = "resolve" /\ tProbe = "Pending" /\ Settled(tRet)) => tRet = FallbackResult

\* C19: if the operation is still pending when the timer fires, the promise returned by
\* timeoutReject rejects with the configured reason: the literal reason, the value
\* returned by the supplier, or whatever a deferred reason settles to.
C19_TimeoutRejectsWithReason ==
  (tKind = "reject" /\ tProbe = "Pending" /\ Settled(tRet)) => tRet = FallbackResult

\* C20: the fallback supplier is invoked only if the timeout wins the race: in no run in
\* which the returned promise settles with the operation's own outcome has the supplier
\* been called.
C20_SupplierOnlyWhenTimeoutWins ==
  (Settled(tRet) /\ tRet = tOp) => tSupplierCalls = 0

\* C35: the placeholder object, produced when the operation is found settled at the
\* time the timer fires, is never the value or the reason the returned promise settles
\* with: the operation's settlement has decided the race before it.
C35_PlaceholderNeverSurfaces ==
  /\ tRet.val # Placeholder.val
  /\ (tQ = Placeholder \/ tDelayed.val = Placeholder.val) => (Settled(tRet) /\ tRet = tOp)

\* timeoutReject on an operation that rejected before the timer fired: the delayed
\* promise rejected with the placeholder and the call kept the operation's reason.
C35_Witness ==
  /\ tKind = "reject"
  /\ tDelayed = SState("Rejected", Placeholder.val)
  /\ tRet = OpOutcome("Rejected")
  /\ tQueue = <<>>

\* The result / rejectReason is a plain value or a function returning one.
PlainFallback == tPc = "racing" /\ ~IsDeferred(tShape)

\* C36: with a plain fallback the returned promise is settled once the timer has fired
\* and its reactions have run, with the fallback if the operation was pending then,
\* even if the operation never settles; the operation is left as it is and may settle
\* later without changing the outcome of the returned promise.
C36_PlainFallbackSettles ==
  /\ [](PlainFallback /\ tTimer = "fired" /\ tQueue = <<>> =>
          /\ Settled(tRet)
          /\ tProbe = "Pending" => tRet = FallbackResult)
  /\ [][PlainFallback /\ Settled(tRet) => tRet' = tRet]_vars
  /\ [][PlainFallback /\ tOp' # tOp => tOp.st = "Pending" /\ tRet' = tRet]_vars

\* The timer fired on a pending operation, the call rejected with the supplied reason,
\* and the operation fulfilled afterwards.
C36_Witness ==
  /\ PlainFallback
  /\ tKind = "reject"
  /\ tShape = "supplier"
  /\ tProbe = "Pending"
  /\ tOp = OpOutcome("Fulfilled")
  /\ tRet = SState("Rejected", TVal("fallback"))
  /\ tQueue = <<>>

-----------------------------------------------------------------------------
\* Properties of synchronized.

\* The calls on a lock whose operation has been invoked and has not settled.
Running(lock) == {c \in DOMAIN sCalls : sCalls[c].lock = lock /\ sOp[c].st = "Pending"}

\* C1: for calls sharing one lock, issued at any times, an operation is never invoked
\* while another operation for the same lock has been invoked and has not yet settled.
C1_MutualExclusion == \A lock \in Locks : Cardinality(Running(lock)) <= 1

\* The entry call c found in the Lock Table, as it is now.
Entry(c) == StateOf(sCalls[c].previousResultPromise)
\* Call c is waiting for nothing but reaction jobs of its own.
OnQueue(c) == \E i \in DOMAIN sQueue : sQueue[i].c = c /\ sQueue[i].kind \in {"probe", "awaitPrevious"}

\* C21: a call that finds a Pending entry for its lock does not invoke its operation
\* until that entry's promise settles, and then invokes it with prevState = Pending,
\* prevSettledState = how the entry settled, prevResult = its value or reason.
C21_PendingEntryChains ==
  \A c \in DOMAIN sCalls :
    (sCalls[c].previousState = "Pending" /\ sArgs[c].invoked)
      => /\ Settled(Entry(c))
         /\ sArgs[c] = OperationArgs("Pending", Entry(c).st, Entry(c).val)

C21_Witness ==
  \E c \in DOMAIN sCalls :
    /\ sCalls[c].previousState = "Pending"
    /\ sArgs[c].invoked
    /\ Entry(c).st = "Rejected"
    /\ sCalls[c].previousResultPromise.kind = "der"

\* C22: a call that finds an already settled entry for its lock invokes its operation
\* without waiting for any other operation, with prevState = prevSettledState = the
\* entry's settled state and prevResult = its value or reason.
C22_SettledEntryRunsAtOnce ==
  \A c \in DOMAIN sCalls :
    sCalls[c].previousState \in {"Fulfilled", "Rejected"}
      => /\ sArgs[c].invoked =>
              sArgs[c] = OperationArgs(Entry(c).st, Entry(c).st, Entry(c).val)
         /\ ~sArgs[c].invoked => OnQueue(c)

C22_Witness ==
  \E c \in DOMAIN sCalls :
    /\ sCalls[c].previousState = "Rejected"
    /\ sArgs[c].invoked
    /\ sArgs[c].previousResult = SVal("error", sCalls[c].predecessor)

\* C23: the first call ever made for a lock (no entry) invokes its operation before the
\* call suspends, with prevState, prevSettledState and prevResult all undefined.
C23_FirstCallRunsAtOnce ==
  \A c \in DOMAIN sCalls :
    sCalls[c].predecessor = 0
      => sArgs[c] = OperationArgs("undefined", "undefined", SUndefined)

C23_Witness ==
  /\ Len(sCalls) = 2
  /\ sCalls[1].lock # sCalls[2].lock
  /\ sOp[1].st = "Pending"
  /\ sOp[2].st = "Pending"

\* C24: for any interleaving of calls on one lock, the operation of the k-th issued call
\* (k >= 2) is handed the final state and the value or reason of the operation of the
\* (k-1)-th issued call, so no two calls are handed the same predecessor.
C24_HandedImmediatePredecessor ==
  \A c \in DOMAIN sCalls :
    (sCalls[c].predecessor # 0 /\ sArgs[c].invoked)
      => /\ sArgs[c].previousSettledState = sOp[sCalls[c].predecessor].st
         /\ sArgs[c].previousResult = sOp[sCalls[c].predecessor].val

\* C25: if a call B is issued while the operation of the call A issued last on the same
\* lock has not settled (running, or A not yet registered), B's operation is invoked
\* with prevState = Pending and only after A's operation has settled.
C25_NeverRunsAhead ==
  \A c \in DOMAIN sCalls :
    (sCalls[c].predecessorUnsettled /\ sArgs[c].invoked)
      => /\ sArgs[c].previousState = "Pending"
         /\ Settled(sOp[sCalls[c].predecessor])

\* The lock of the call that owns a promise or produced a value.
LockOf(c) == sCalls[c].lock
\* The calls whose reactions are registered on the promises of call d.
WaitingOn(d) ==
  {sReact[d].op[i].c : i \in DOMAIN sReact[d].op} \cup
  {sReact[d].der[i].c : i \in DOMAIN sReact[d].der}

\* C38: calls on different locks are independent: a call on a lock reads and writes
\* only the Lock Table entry of that lock, never waits for an operation registered
\* under another lock, and is never handed the state or result of one.
C38_LocksAreIndependent ==
  /\ [](\A k \in Locks :
          synchronizationLocks[k] # NoPromise => LockOf(synchronizationLocks[k].c) = k)
  /\ [](\A c \in DOMAIN sCalls :
          /\ sCalls[c].previousResultPromise # NoPromise =>
               LockOf(sCalls[c].previousResultPromise.c) = LockOf(c)
          /\ sCalls[c].resultPromise # NoPromise => sCalls[c].resultPromise.c = c
          /\ sArgs[c].previousResult # SUndefined =>
               LockOf(sArgs[c].previousResult.c) = LockOf(c)
          /\ \A d \in WaitingOn(c) : LockOf(d) = LockOf(c)
          /\ sCalls[c].predecessor = 0 => sCalls[c].previousResultPromise = NoPromise)
  /\ [][\A k \in Locks :
          synchronizationLocks'[k] # synchronizationLocks[k] =>
            sCalls'[synchronizationLocks'[k].c].lock = k]_vars

\* Calls on k1, k2, k1: the third was handed the result of the first while the
\* operation registered under k2 was still running.
C38_Witness ==
  /\ Len(sCalls) = 3
  /\ LockOf(1) = "k1"
  /\ LockOf(2) = "k2"
  /\ LockOf(3) = "k1"
  /\ sOp[2].st = "Pending"
  /\ sArgs[2] = FirstCallArgs
  /\ sArgs[3].invoked
  /\ sArgs[3].previousResult = SVal("value", 1)

\* Call c has run to its end: its operation was invoked and the promise it returned
\* to its caller has settled.
Completed(c) == sArgs[c].invoked /\ Settled(sOp[c]) /\ Settled(sRet[c])

\* C39: if the promise of every invoked operation settles in the end, then for any
\* finite set of calls every call's operation is invoked in the end and every returned
\* promise settles in the end, as its operation did; a predecessor that failed does not
\* block its successors.
C39_EveryCallCompletes ==
  /\ <>[](\A c \in DOMAIN sCalls : Completed(c))
  /\ [](\A c \in DOMAIN sCalls : Settled(sRet[c]) => sRet[c] = sOp[c])

\* Three calls on one lock: the first two operations rejected, and all three calls
\* have completed.
C39_Witness ==
  /\ Len(sCalls) = 3
  /\ \A c \in 1..3 : LockOf(c) = "k1" /\ Completed(c)
  /\ sOp[1].st = "Rejected"
  /\ sOp[2].st = "Rejected"
  /\ sOp[3].st = "Fulfilled"
  /\ sQueue = <<>>

-----------------------------------------------------------------------------
\* Properties of promiseState.

\* C26: promiseState(p) resolves to Pending if p is unsettled at the moment of the call,
\* to Fulfilled if p is fulfilled at that moment, to Rejected if it is rejected then.
C26_ProbeReportsStateAtCall ==
  \A c \in DOMAIN bProbes :
    Settled(bProbes[c].result) => bProbes[c].result.val = StateValue(bProbes[c].atCall)

C26_Witness ==
  /\ Len(bProbes) = 3
  /\ bProbes[1].result.val = StateValue("Pending")
  /\ bProbes[2].result.val = StateValue("Pending")
  /\ bProbes[3].result.val = StateValue("Rejected")
  /\ bProbes[3].race = bP

\* C27: the promise returned by promiseState(p) always fulfils, never rejects (also when
\* p is rejected), and settles without waiting for p: once its own reaction jobs have
\* run it is settled, even if p never settles.
C27_ProbeAlwaysFulfils ==
  \A c \in DOMAIN bProbes :
    /\ bProbes[c].result.st # "Rejected"
    /\ bQueue = <<>> => bProbes[c].result.st = "Fulfilled"

C27_Witness ==
  /\ Len(bProbes) = 2
  /\ bQueue = <<>>
  /\ bP.st = "Rejected"
  /\ bProbes[1].atCall = "Pending"
  /\ bProbes[2].atCall = "Rejected"
  /\ bProbes[2].result.st = "Fulfilled"

-----------------------------------------------------------------------------
\* Properties of delayedResolve / delayedReject.

\* C28: the promise returned by delayedReject(ms, reason) never fulfils: once its timer
\* has fired it settles as rejected, with the literal reason or, for a deferred reason,
\* with whatever that promise settles to, fulfilled or rejected.
C28_DelayedRejectAlwaysRejects ==
  dKind = "reject" =>
    /\ dRet.st # "Fulfilled"
    /\ Settled(dRet) => /\ dTimer = "fired"
                        /\ Settled(DelayedSource)
                        /\ dRet = SState("Rejected", DelayedSource.val)
    /\ (dTimer = "fired" /\ Settled(DelayedSource) /\ dQueue = <<>>) => Settled(dRet)

C28_Witness ==
  /\ dKind = "reject"
  /\ dShape = "supplierDeferred"
  /\ dNested = FbOutcome("Fulfilled")
  /\ dRet = SState("Rejected", TVal("fbValue"))

\* C29: delayedResolve(ms, supplier) does not invoke the supplier before its timer
\* fires, invokes it exactly once when the timer fires, and the returned promise takes
\* the outcome of what the supplier returned: fulfilled with a plain value, or the
\* fulfilment or rejection of a returned promise.
C29_DelayedResolveSupplier ==
  (dKind = "resolve" /\ IsSupplier(dShape)) =>
    /\ dTimer = "armed" => dSupplierCalls = 0 /\ dRet.st = "Pending"
    /\ dTimer = "fired" => dSupplierCalls = 1 /\ dClock >= dMs
    /\ Settled(dRet) => dRet = DelayedSource
    /\ (dTimer = "fired" /\ Settled(DelayedSource) /\ dQueue = <<>>) => Settled(dRet)

C29_Witness ==
  /\ dKind = "resolve"
  /\ dShape = "supplierDeferred"
  /\ dMs = 2
  /\ dSupplierCalls = 1
  /\ dRet = FbOutcome("Rejected")

-----------------------------------------------------------------------------
\* Properties of EXPONENTIAL_SEQUENCE.

\* The number of delays looked up so far.
LookedUp == qAttempt - 1

\* C40: EXPONENTIAL_SEQUENCE is a table of the powers of two: its first element is 1,
\* every later element is exactly twice the element before it, so the delays taken
\* from it in turn are strictly increasing, up to the last element 33554432.
C40_PowersOfTwo ==
  qTable = "exponential" =>
    /\ LookedUp = 1 => qCur = 1
    /\ LookedUp >= 2 => qCur = 2 * qPrev /\ qCur > qPrev
    /\ LookedUp = Len(EXPONENTIAL_SEQUENCE) => qCur = 33554432

====
